---- MODULE Spec2Model ----
(***************************************************************************)
(* Transaction intelligence pipeline of budget-automation: the SQLite      *)
(* transaction store, the similarity index, the RAG categorizer, the       *)
(* recurring detector and the anomaly detector, with the orchestration of  *)
(* BudgetService around them.                                              *)
(*                                                                         *)
(* Amounts are integers (currency units), dates are day ordinals (the      *)
(* difference of two dates is the number of days between them), a          *)
(* transaction's id is its position in the transactions table              *)
(* (AUTOINCREMENT from 1, rows are never deleted by the pipeline).         *)
(***************************************************************************)
EXTENDS Integers, Sequences, FiniteSets, TLC

VARIABLES
    transactions,        \* table transactions, in id order
    embeddings,          \* LanceDB table transaction_embeddings, in insertion order
    categorization_log,  \* table categorization_log, in insertion order
    next_group_id,       \* RecurringDetector._next_group_id
    imported,            \* history: the rows of the files import_file has been called on
    method,              \* history: per transaction, how its category state was last set
    ret,                 \* history: the last operation, its arguments and its outcome
    running              \* the calls in progress, by thread: position and local values

vars == <<transactions, embeddings, categorization_log, next_group_id, imported, method,
          ret, running>>

(***************************************************************************)
(* Bounds of the model.                                                    *)
(***************************************************************************)
MaxTransactions == 4
MaxManual == 1
MaxStored == 2
MaxMarked == 4
MaxGroupId == 4
MaxIndex == 6
MaxGaps == 3
MaxCategoryTxns == 5
MaxDetectorTxns == 3
MaxUpdateIndex == 3
MaxAmountLen == 3
MaxFileRows == 2
MaxRelabelIndex == 1

(***************************************************************************)
(* Program constants.                                                      *)
(***************************************************************************)
TOP_K_SIMILAR == 5
MIN_MATCHES_FOR_AUTO == 3
\* SIMILARITY_THRESHOLD = 0.85, as the fraction SimNum / SimDen
SIMILARITY_THRESHOLD_NUM == 85
SIMILARITY_THRESHOLD_DEN == 100
RECURRING_MIN_OCCURRENCES == 2
RECURRING_INTERVAL_TOLERANCE_DAYS == 3
YEARLY_TOLERANCE_DAYS == 7
RECURRING_INTERVALS == <<7, 14, 28, 30, 31, 90, 365>>
\* ANOMALY_IQR_MULTIPLIER = 1.5, as the fraction 3 / 2
ANOMALY_IQR_MULTIPLIER_NUM == 3
ANOMALY_IQR_MULTIPLIER_DEN == 2
ANOMALY_MEDIAN_MULTIPLIER == 3

\* SQL NULL / Python None in an integer column (category ids start at 1)
NULL == 0
\* Python None for an optional text
NoText == ""

(***************************************************************************)
(* Generic helpers.                                                        *)
(***************************************************************************)
Abs(x) == IF x < 0 THEN -x ELSE x

Range(s) == {s[i] : i \in 1..Len(s)}

RECURSIVE SumSeq(_)
SumSeq(s) == IF s = <<>> THEN 0 ELSE s[1] + SumSeq(Tail(s))

\* The positions of s, in ascending order, whose element satisfies Test
RECURSIVE SelectIdx(_, _, _)
SelectIdx(s, Test(_), i) ==
    IF i > Len(s) THEN <<>>
    ELSE (IF Test(s[i]) THEN <<i>> ELSE <<>>) \o SelectIdx(s, Test, i + 1)

\* sorted(xs) of integers (ascending, duplicates kept)
RECURSIVE InsertSorted(_, _)
InsertSorted(x, s) ==
    IF s = <<>> THEN <<x>>
    ELSE IF x <= s[1] THEN <<x>> \o s
    ELSE <<s[1]>> \o InsertSorted(x, Tail(s))

RECURSIVE Sorted(_)
Sorted(s) == IF s = <<>> THEN <<>> ELSE InsertSorted(s[1], Sorted(Tail(s)))

(***************************************************************************)
(* Categories: table categories, seeded by DEFAULT_CATEGORIES_SQL.  The    *)
(* model keeps three of the fourteen seeded names; a category's id is its  *)
(* position.  Lower is str.lower() on the names the model uses.            *)
(***************************************************************************)
CategoryNames == <<"Entertainment", "Food & Dining", "Other">>

CategoryIds == 1..Len(CategoryNames)

Lower(name) ==
    CASE name = "Entertainment" -> "entertainment"
      [] name = "ENTERTAINMENT" -> "entertainment"
      [] name = "Food & Dining" -> "food & dining"
      [] name = "Other" -> "other"
      [] OTHER -> name

\* RAGCategorizer._get_category_id_by_name: the category whose name matches
\* ignoring case (names are UNIQUE, so at most one of the seeded names matches)
GetCategoryIdByName(name) ==
    LET hits == {c \in CategoryIds : Lower(CategoryNames[c]) = Lower(name)}
    IN IF hits = {} THEN NULL ELSE CHOOSE c \in hits : \A d \in hits : c <= d

\* cat_map.get(category_id, "Other")
CategoryNameOr(category_id) ==
    IF category_id \in CategoryIds THEN CategoryNames[category_id] ELSE "Other"

(***************************************************************************)
(* SQLiteStore: transactions.                                              *)
(***************************************************************************)
\* A row of table transactions as INSERT leaves it (schema defaults)
NewTransaction(date, amount, merchant, description, category_id) ==
    [date |-> date, amount |-> amount, merchant |-> merchant,
     description |-> description, category_id |-> category_id,
     is_recurring |-> 0, recurring_group_id |-> NULL, is_anomaly |-> 0]

\* SQLiteStore._transaction_exists
TransactionExists(txns, date, amount, merchant) ==
    \E i \in 1..Len(txns) :
        /\ txns[i].date = date
        /\ txns[i].amount = amount
        /\ txns[i].merchant = merchant

\* An insert that takes the description into the identity of a row
AddTransactionExact(txns, date, amount, merchant, description, category_id) ==
    IF \E i \in 1..Len(txns) :
          /\ txns[i].date = date
          /\ txns[i].amount = amount
          /\ txns[i].merchant = merchant
          /\ txns[i].description = description
    THEN <<txns, NULL>>
    ELSE <<Append(txns, NewTransaction(date, amount, merchant, description, category_id)),
           Len(txns) + 1>>

\* SQLiteStore.add_transaction: <<table after, id or NULL>>
AddTransaction(txns, date, amount, merchant, description, category_id) ==
    IF TransactionExists(txns, date, amount, merchant)
    THEN <<txns, NULL>>
    ELSE <<Append(txns, NewTransaction(date, amount, merchant, description, category_id)),
           Len(txns) + 1>>

\* A bulk insert that skips the existence check
AddAllTransactions(txns, rows) ==
    <<txns \o [i \in 1..Len(rows) |->
                 NewTransaction(rows[i].date, rows[i].amount, rows[i].merchant,
                                rows[i].description, NULL)],
      [i \in 1..Len(rows) |-> Len(txns) + i]>>

\* SQLiteStore.add_transactions: <<table after, ids added>>; a parsed row carries
\* no category_id, so txn.get("category_id") is None
RECURSIVE AddTransactions(_, _)
AddTransactions(txns, rows) ==
    IF rows = <<>> THEN <<txns, <<>>>>
    ELSE LET one == AddTransaction(txns, rows[1].date, rows[1].amount,
                                   rows[1].merchant, rows[1].description, NULL)
             rest == AddTransactions(one[1], Tail(rows))
         IN <<rest[1], (IF one[2] = NULL THEN <<>> ELSE <<one[2]>>) \o rest[2]>>

\* An update without the WHERE clause: every row receives the category
UpdateEveryTransactionCategory(txns, txn_id, category_id) ==
    [i \in 1..Len(txns) |-> [txns[i] EXCEPT !.category_id = category_id]]

\* SQLiteStore.update_transaction_category
UpdateTransactionCategory(txns, txn_id, category_id) ==
    IF txn_id \in 1..Len(txns)
    THEN [txns EXCEPT ![txn_id].category_id = category_id]
    ELSE txns

\* A marking that also rewrites the merchant of the row
MarkTransactionRecurringRenaming(txns, txn_id, group_id) ==
    IF txn_id \in 1..Len(txns)
    THEN [txns EXCEPT ![txn_id].is_recurring = 1, ![txn_id].recurring_group_id = group_id,
                      ![txn_id].merchant = "RECURRING"]
    ELSE txns

\* SQLiteStore.mark_transaction_recurring
MarkTransactionRecurring(txns, txn_id, group_id) ==
    IF txn_id \in 1..Len(txns)
    THEN [txns EXCEPT ![txn_id].is_recurring = 1, ![txn_id].recurring_group_id = group_id]
    ELSE txns

\* A marking that flips the anomaly bit
MarkTransactionAnomalyToggle(txns, txn_id) ==
    IF txn_id \in 1..Len(txns)
    THEN [txns EXCEPT ![txn_id].is_anomaly = 1 - @]
    ELSE txns

\* SQLiteStore.mark_transaction_anomaly
MarkTransactionAnomaly(txns, txn_id) ==
    IF txn_id \in 1..Len(txns)
    THEN [txns EXCEPT ![txn_id].is_anomaly = 1]
    ELSE txns

(***************************************************************************)
(* LocalEmbedder and VectorStore.  The encoder is a pre-built service: an  *)
(* embedding is represented by the text it is computed from (merchant,     *)
(* description, amount bucket), and the distance of two embeddings by the  *)
(* parts in which their texts differ.                                      *)
(***************************************************************************)
\* LocalEmbedder.embed_transaction: the amount bucket appended to the text
AmountBucket(amount) ==
    IF Abs(amount) < 10 THEN "small purchase"
    ELSE IF Abs(amount) < 50 THEN "medium purchase"
    ELSE IF Abs(amount) < 200 THEN "large purchase"
    ELSE "major expense"

\* LocalEmbedder.embed_transaction
EmbedTransaction(merchant, description, amount) ==
    <<merchant, description, AmountBucket(amount)>>

\* The distance LanceDB ranks by
Distance(u, v) ==
    (IF u[1] = v[1] THEN 0 ELSE 2) + (IF u[2] = v[2] THEN 0 ELSE 1)
        + (IF u[3] = v[3] THEN 0 ELSE 1)

\* VectorStore.add_embedding
AddEmbedding(table, transaction_id, embedding, merchant, category, amount) ==
    Append(table, [transaction_id |-> transaction_id, vector |-> embedding,
                   merchant |-> merchant, category |-> category, amount |-> amount])

\* The positions of the rows of a transaction id
EntriesOf(table, transaction_id) ==
    {p \in 1..Len(table) : table[p].transaction_id = transaction_id}

\* VectorStore.get_embedding: the possible results, none when the set is empty.
\* search().where("transaction_id = ...").limit(1) returns one of the rows of the
\* id; which one, when there are several, is the index's choice.
GetEmbedding(table, transaction_id) ==
    {table[p] : p \in EntriesOf(table, transaction_id)}

\* A delete that removes the first row of the id only
DeleteEmbeddingFirst(table, transaction_id) ==
    IF EntriesOf(table, transaction_id) = {} THEN table
    ELSE LET Without(p) == SubSeq(table, 1, p - 1) \o SubSeq(table, p + 1, Len(table))
         IN Without(CHOOSE p \in EntriesOf(table, transaction_id) :
                        \A q \in EntriesOf(table, transaction_id) : p <= q)

\* VectorStore.delete_embedding: table.delete("transaction_id = ...") removes
\* every row of the id
DeleteEmbedding(table, transaction_id) ==
    LET Other(e) == e.transaction_id # transaction_id
    IN SelectSeq(table, Other)

\* The rows of the table taken by position, nearest first (ties by position)
RECURSIVE RankPositions(_, _, _)
RankPositions(table, query, todo) ==
    IF todo = {} THEN <<>>
    ELSE LET best == CHOOSE p \in todo : \A q \in todo :
                        \/ Distance(table[p].vector, query) < Distance(table[q].vector, query)
                        \/ /\ Distance(table[p].vector, query) = Distance(table[q].vector, query)
                           /\ p <= q
         IN <<best>> \o RankPositions(table, query, todo \ {best})

\* VectorStore.search: the possible results.  Each is the k nearest rows (all the
\* rows when the table holds fewer), nearest first; which of several rows at the
\* same distance make the cut is the index's choice.
Search(table, query, k) ==
    LET n == Len(table)
        size == IF n < k THEN n ELSE k
        Dist(p) == Distance(table[p].vector, query)
        Nearer(d) == {p \in 1..n : Dist(p) < d}
        \* the distance of the last row that makes the cut
        cut == CHOOSE d \in {Dist(p) : p \in 1..n} :
                  /\ Cardinality(Nearer(d)) < size
                  /\ Cardinality(Nearer(d + 1)) >= size
        cuts == IF size = 0 THEN {{}}
                ELSE {Nearer(cut) \cup B :
                        B \in {C \in SUBSET {p \in 1..n : Dist(p) = cut} :
                                 Cardinality(C) = size - Cardinality(Nearer(cut))}}
        Ranked(S) == LET rank == RankPositions(table, query, S)
                     IN [i \in 1..size |-> table[rank[i]]]
    IN {Ranked(S) : S \in cuts}

(***************************************************************************)
(* RAGCategorizer.                                                         *)
(***************************************************************************)
\* The labels of the neighbours: [s.get("category", "Unknown") for s in similar]
NeighbourLabels(similar) == [i \in 1..Len(similar) |-> similar[i].category]

CountOf(labels, label) == Cardinality({i \in 1..Len(labels) : labels[i] = label})

\* RAGCategorizer._get_category_distribution: dict(Counter(categories)), as the
\* sequence of its keys in insertion order (the order of first occurrence)
RECURSIVE DistributionKeys(_)
DistributionKeys(labels) ==
    IF labels = <<>> THEN <<>>
    ELSE LET front == DistributionKeys(SubSeq(labels, 1, Len(labels) - 1))
             last == labels[Len(labels)]
         IN IF last \in Range(front) THEN front ELSE Append(front, last)

\* max(distribution.items(), key=lambda x: x[1]): the first key, in insertion
\* order, whose count is the largest
MostCommon(labels) ==
    LET keys == DistributionKeys(labels)
        i == CHOOSE i \in 1..Len(keys) :
                /\ \A j \in 1..Len(keys) : CountOf(labels, keys[j]) <= CountOf(labels, keys[i])
                /\ \A j \in 1..(i - 1) : CountOf(labels, keys[j]) < CountOf(labels, keys[i])
    IN keys[i]

\* sorted(distribution.items(), key=lambda x: x[1], reverse=True): a stable sort,
\* keys of equal count keep their insertion order
RECURSIVE SortedByCount(_, _)
SortedByCount(labels, keys) ==
    IF keys = <<>> THEN <<>>
    ELSE LET i == CHOOSE i \in 1..Len(keys) :
                    /\ \A j \in 1..Len(keys) : CountOf(labels, keys[j]) <= CountOf(labels, keys[i])
                    /\ \A j \in 1..(i - 1) : CountOf(labels, keys[j]) < CountOf(labels, keys[i])
         IN <<keys[i]>> \o SortedByCount(labels, SubSeq(keys, 1, i - 1) \o SubSeq(keys, i + 1, Len(keys)))

\* RAGCategorizer._get_suggestions
GetSuggestions(similar) ==
    LET labels == NeighbourLabels(similar)
        ranked == SortedByCount(labels, DistributionKeys(labels))
    IN IF Len(ranked) <= 3 THEN ranked ELSE SubSeq(ranked, 1, 3)

\* The result dict of categorize.  confidence is the fraction <<count, neighbours>>
\* (<<0, 1>> is 0.0); an auto result has no "suggestions" key, kept here as <<>>.
NeedsReviewResult(similar) ==
    [category_id |-> NULL, category_name |-> NoText, confidence |-> <<0, 1>>,
     explanation |-> "Needs manual review", method |-> "needs_review",
     similar_transactions |-> similar, suggestions |-> GetSuggestions(similar)]

AutoResult(similar, category_id, category_name, count) ==
    [category_id |-> category_id, category_name |-> category_name,
     confidence |-> <<count, Len(similar)>>,
     explanation |-> "Auto-categorized", method |-> "auto",
     similar_transactions |-> similar, suggestions |-> <<>>]

\* No dict: the call raised
NoResult ==
    [category_id |-> NULL, category_name |-> NoText, confidence |-> <<0, 1>>,
     explanation |-> NoText, method |-> "raised",
     similar_transactions |-> <<>>, suggestions |-> <<>>]

\* An agreement test that settles for a bare majority of the neighbours
AgreesMajority(count, neighbours) ==
    /\ 2 * count > neighbours
    /\ count >= MIN_MATCHES_FOR_AUTO

\* The agreement test of _try_auto_categorize:
\* agreement_ratio >= SIMILARITY_THRESHOLD and count >= MIN_MATCHES_FOR_AUTO
Agrees(count, neighbours) ==
    /\ count * SIMILARITY_THRESHOLD_DEN >= SIMILARITY_THRESHOLD_NUM * neighbours
    /\ count >= MIN_MATCHES_FOR_AUTO

\* RAGCategorizer._try_auto_categorize followed by the fallback of categorize:
\* the result for the neighbours the search returned
CategorizeResult(similar) ==
    IF Len(similar) < MIN_MATCHES_FOR_AUTO THEN NeedsReviewResult(similar)
    ELSE LET labels == NeighbourLabels(similar)
             category_name == MostCommon(labels)
             count == CountOf(labels, category_name)
             category_id == GetCategoryIdByName(category_name)
         IN IF Agrees(count, Len(similar)) /\ category_id # NULL
            THEN AutoResult(similar, category_id, category_name, count)
            ELSE NeedsReviewResult(similar)

\* The collaborator call at which a categorization may fail: the embedding of
\* _build_rag_context, the search, the embedding of categorize_and_update
FailPoints == {"none", "embed", "search", "embed_update"}

\* The collaborator calls _build_rag_context makes, in order: embed_transaction,
\* then vector_store.search unless the embedding raised
RagContextCalls(fail) == IF fail = "embed" THEN <<"embed">> ELSE <<"embed", "search">>

\* RAGCategorizer.categorize: the possible outcomes for a transaction dict, each
\* [raised, result, calls]; a collaborator's exception is not caught
Categorize(table, txn, fail) ==
    IF fail \in {"embed", "search"}
    THEN {[raised |-> TRUE, result |-> NoResult, calls |-> RagContextCalls(fail)]}
    ELSE {[raised |-> FALSE, result |-> CategorizeResult(similar),
           calls |-> RagContextCalls(fail)] :
            similar \in Search(table, EmbedTransaction(txn.merchant, txn.description, txn.amount),
                               TOP_K_SIMILAR)}

\* SQLiteStore.add_categorization_log: <<log after, raised>>.  Column category_id
\* of categorization_log is NOT NULL: the INSERT of a None category raises
\* sqlite3.IntegrityError and adds no row.
AddCategorizationLog(log, transaction_id, category_id, confidence, explanation, similar_ids) ==
    IF category_id = NULL
    THEN <<log, TRUE>>
    ELSE <<Append(log, [transaction_id |-> transaction_id, category_id |-> category_id,
                        confidence |-> confidence, explanation |-> explanation,
                        similar_transaction_ids |-> similar_ids]),
           FALSE>>

\* [s["transaction_id"] for s in result.get("similar_transactions", [])]
SimilarIds(similar) == [i \in 1..Len(similar) |-> similar[i].transaction_id]

\* How a transaction's category state was last set, once a result exists for it
SetMethod(m, txn_id, how) ==
    IF txn_id \in 1..Len(m) THEN [m EXCEPT ![txn_id] = how] ELSE m

\* What a call of categorize_and_update came to: the transaction, where the call
\* raised ("no" when it returned) and, once categorize returned, its result
CallRecord(txn_id, raised, r) ==
    [txn_id |-> txn_id, raised |-> raised, method |-> r.method,
     category_id |-> r.category_id, confidence |-> r.confidence,
     similar_ids |-> SimilarIds(r.similar_transactions)]

\* RAGCategorizer.categorize_and_update on the state st = [transactions,
\* embeddings, categorization_log, method]: the possible outcomes, each
\* [st, call, calls], calls being the collaborator calls made
CategorizeAndUpdate(st, txn, fail) ==
    {   IF c.raised
        THEN [st |-> st, call |-> CallRecord(txn.id, "categorize", c.result),
              calls |-> c.calls]
        ELSE
        LET r == c.result
            updated == [st EXCEPT
                          !.transactions = UpdateTransactionCategory(@, txn.id, r.category_id),
                          !.method = SetMethod(@, txn.id, r.method)]
            indexed == [updated EXCEPT
                          !.embeddings = AddEmbedding(@, txn.id,
                                EmbedTransaction(txn.merchant, txn.description, txn.amount),
                                txn.merchant, CategoryNameOr(r.category_id), txn.amount)]
            logged == AddCategorizationLog(indexed.categorization_log, txn.id, r.category_id,
                                           r.confidence, r.explanation,
                                           SimilarIds(r.similar_transactions))
        IN  IF fail = "embed_update"
            THEN [st |-> updated, call |-> CallRecord(txn.id, "embed_update", r),
                  calls |-> Append(c.calls, "embed")]
            ELSE IF logged[2]
            THEN [st |-> indexed, call |-> CallRecord(txn.id, "log", r),
                  calls |-> Append(c.calls, "embed")]
            ELSE [st |-> [indexed EXCEPT !.categorization_log = logged[1]],
                  call |-> CallRecord(txn.id, "no", r),
                  calls |-> Append(c.calls, "embed")]
      : c \in Categorize(st.embeddings, txn, fail) }

\* The dict import_file hands to categorize_and_update for a stored transaction
TxnDict(txns, txn_id) ==
    [id |-> txn_id, merchant |-> txns[txn_id].merchant,
     description |-> txns[txn_id].description, amount |-> txns[txn_id].amount]

\* The categorization loop of BudgetService.import_file over the added ids: the
\* possible outcomes [st, calls, categorized].  A transaction that already has a
\* category is skipped; an exception of categorize_and_update is caught and
\* logged, and the loop goes on.  fail is the collaborator call that fails while
\* this import runs.
RECURSIVE CategorizeAdded(_, _, _, _, _)
CategorizeAdded(st, ids, fail, calls, categorized) ==
    IF ids = <<>> THEN {[st |-> st, calls |-> calls, categorized |-> categorized]}
    ELSE IF st.transactions[ids[1]].category_id # NULL
    THEN CategorizeAdded(st, Tail(ids), fail, calls, categorized)
    ELSE UNION { CategorizeAdded(o.st, Tail(ids), fail, Append(calls, o.call),
                                 IF o.call.raised = "no" THEN categorized + 1 ELSE categorized)
                 : o \in CategorizeAndUpdate(st, TxnDict(st.transactions, ids[1]), fail) }

(***************************************************************************)
(* RecurringDetector.                                                      *)
(***************************************************************************)
\* The (merchant, amount) groups of SQLiteStore.get_merchant_amount_groups:
\* GROUP BY merchant, amount HAVING count >= 2
GroupKeys(txns) ==
    {k \in {<<txns[i].merchant, txns[i].amount>> : i \in 1..Len(txns)} :
        Cardinality({i \in 1..Len(txns) : txns[i].merchant = k[1] /\ txns[i].amount = k[2]}) >= 2}

\* The txn_ids of a group (GROUP_CONCAT(id), in id order)
GroupIds(txns, k) ==
    LET InGroup(t) == t.merchant = k[1] /\ t.amount = k[2]
    IN SelectIdx(txns, InGroup, 1)

\* The orders in which the query may return the groups: ORDER BY count DESC,
\* groups of equal count in the order the database chooses
GroupOrders(txns) ==
    LET keys == GroupKeys(txns)
        n == Cardinality(keys)
    IN {o \in [1..n -> keys] :
          /\ \A i, j \in 1..n : i # j => o[i] # o[j]
          /\ \A i, j \in 1..n : i < j => Len(GroupIds(txns, o[i])) >= Len(GroupIds(txns, o[j]))}

\* RecurringDetector._interval_to_type
IntervalToType(interval) ==
    IF interval = 7 THEN "weekly"
    ELSE IF interval = 14 THEN "biweekly"
    ELSE IF interval \in {28, 29, 30, 31} THEN "monthly"
    ELSE IF interval = 90 THEN "quarterly"
    ELSE IF interval \in {365, 366} THEN "yearly"
    ELSE "every N days"

\* One tolerance for every known interval
ToleranceUniform(known_interval) == RECURRING_INTERVAL_TOLERANCE_DAYS

\* The tolerance _analyze_intervals uses for a known interval
Tolerance(known_interval) ==
    IF known_interval >= 365 THEN YEARLY_TOLERANCE_DAYS
    ELSE RECURRING_INTERVAL_TOLERANCE_DAYS

\* round(total / n) of Python: to the nearest integer, a half to the even one
RoundDiv(total, n) ==
    LET q == total \div n
        r == total % n
    IN IF 2 * r < n THEN q
       ELSE IF 2 * r > n THEN q + 1
       ELSE IF q % 2 = 0 THEN q ELSE q + 1

\* The gaps in days between consecutive dates
Intervals(dates) == [i \in 1..(Len(dates) - 1) |-> dates[i + 1] - dates[i]]

\* abs(mean_interval - known_interval) <= tolerance, for the intervals' mean
MeanWithin(intervals, known_interval, tolerance) ==
    Abs(SumSeq(intervals) - known_interval * Len(intervals)) <= tolerance * Len(intervals)

\* std_interval <= tolerance: statistics.stdev (the sample deviation) of the
\* intervals, 0 for a single interval, compared through its square
StdevWithin(intervals, tolerance) ==
    LET n == Len(intervals)
        total == SumSeq(intervals)
        squares == SumSeq([i \in 1..n |-> intervals[i] * intervals[i]])
    IN IF n <= 1 THEN TRUE
       ELSE n * squares - total * total <= tolerance * tolerance * n * (n - 1)

\* The loop of _analyze_intervals over RECURRING_INTERVALS from position i: the
\* first known interval the mean is within tolerance of, with the deviation
\* within tolerance too
RECURSIVE FirstKnownInterval(_, _)
FirstKnownInterval(intervals, i) ==
    IF i > Len(RECURRING_INTERVALS) THEN 0
    ELSE IF /\ MeanWithin(intervals, RECURRING_INTERVALS[i], Tolerance(RECURRING_INTERVALS[i]))
            /\ StdevWithin(intervals, Tolerance(RECURRING_INTERVALS[i]))
         THEN RECURRING_INTERVALS[i]
         ELSE FirstKnownInterval(intervals, i + 1)

\* RecurringDetector._analyze_intervals on sorted dates: [found, interval, type]
\* Whether a function of Python's statistics module raises StatisticsError on n
\* data points: mean and median need one point, stdev needs two
StatisticsRaises(fn, n) ==
    IF fn = "stdev" THEN n < 2 ELSE n < 1

\* Whether RecurringDetector._analyze_intervals raises on the sorted dates
AnalyzeIntervalsRaises(dates) ==
    /\ Len(dates) >= 2
    /\ LET n == Len(Intervals(dates))
       IN /\ n # 0
          /\ \/ StatisticsRaises("mean", n)
             \/ n > 1 /\ StatisticsRaises("stdev", n)

AnalyzeIntervals(dates) ==
    IF Len(dates) < 2 THEN [found |-> FALSE, interval |-> 0, type |-> NoText]
    ELSE LET intervals == Intervals(dates)
             known == FirstKnownInterval(intervals, 1)
         IN IF known = 0 THEN [found |-> FALSE, interval |-> 0, type |-> NoText]
            ELSE [found |-> TRUE,
                  interval |-> RoundDiv(SumSeq(intervals), Len(intervals)),
                  type |-> IntervalToType(known)]

\* RecurringDetector.detect for the groups in the order the query returned them
RECURSIVE Detect(_, _)
Detect(txns, order) ==
    IF order = <<>> THEN <<>>
    ELSE LET k == order[1]
             ids == GroupIds(txns, k)
             info == AnalyzeIntervals(Sorted([i \in 1..Len(ids) |-> txns[ids[i]].date]))
         IN (IF Len(ids) >= RECURRING_MIN_OCCURRENCES /\ info.found
             THEN <<[merchant |-> k[1], amount |-> k[2], interval_days |-> info.interval,
                     interval_type |-> info.type, transaction_ids |-> ids, count |-> Len(ids)]>>
             ELSE <<>>)
            \o Detect(txns, Tail(order))

\* Whether RecurringDetector.detect raises: whether a group it analyzes does
DetectRaises(txns) ==
    \E k \in GroupKeys(txns) :
        LET ids == GroupIds(txns, k)
        IN /\ Len(ids) >= RECURRING_MIN_OCCURRENCES
           /\ AnalyzeIntervalsRaises(Sorted([i \in 1..Len(ids) |-> txns[ids[i]].date]))

\* A marking loop that stops after the first member of the group
MarkGroupFirst(txns, ids, group_id) ==
    IF ids = <<>> THEN txns ELSE MarkTransactionRecurring(txns, ids[1], group_id)

\* The marking loop of detect_and_mark over one group's transaction ids
RECURSIVE MarkGroup(_, _, _)
MarkGroup(txns, ids, group_id) ==
    IF ids = <<>> THEN txns
    ELSE MarkGroup(MarkTransactionRecurring(txns, ids[1], group_id), Tail(ids), group_id)

\* The loop of RecurringDetector.detect_and_mark: [transactions, next_group_id, ids],
\* ids the group id each group of the result received
RECURSIVE MarkRecurring(_, _, _)
MarkRecurring(txns, recurring, next_id) ==
    IF recurring = <<>> THEN [transactions |-> txns, next_group_id |-> next_id, ids |-> <<>>]
    ELSE LET rest == MarkRecurring(MarkGroup(txns, recurring[1].transaction_ids, next_id),
                                   Tail(recurring), next_id + 1)
         IN [rest EXCEPT !.ids = <<next_id>> \o @]

(***************************************************************************)
(* AnomalyDetector.                                                        *)
(***************************************************************************)
\* The absolute amounts of the transactions of a category, sorted
CategoryAmounts(txns, category_id) ==
    LET InCategory(t) == t.category_id = category_id
        ids == SelectIdx(txns, InCategory, 1)
    IN Sorted([i \in 1..Len(ids) |-> Abs(txns[ids[i]].amount)])

\* Quartiles read one position lower: at floor(n/4) - 1 and floor(3n/4) - 1
GetCategoryStatsBelow(txns, category_id) ==
    LET At(amounts_sorted, p) == amounts_sorted[IF p < 1 THEN 1 ELSE p]
        Quartiles(amounts_sorted, n) ==
            IF n = 0 THEN [q1 |-> 0, q3 |-> 0]
            ELSE [q1 |-> At(amounts_sorted, n \div 4),
                  q3 |-> At(amounts_sorted, (3 * n) \div 4)]
        Stats(amounts_sorted) == Quartiles(amounts_sorted, Len(amounts_sorted))
    IN Stats(CategoryAmounts(txns, category_id))

\* SQLiteStore.get_category_stats: the positional quartiles [q1, q3]
GetCategoryStats(txns, category_id) ==
    LET Quartiles(amounts_sorted, n) ==
            IF n = 0 THEN [q1 |-> 0, q3 |-> 0]
            ELSE [q1 |-> amounts_sorted[(n \div 4) + 1],
                  q3 |-> amounts_sorted[((3 * n) \div 4) + 1]]
        Stats(amounts_sorted) == Quartiles(amounts_sorted, Len(amounts_sorted))
    IN Stats(CategoryAmounts(txns, category_id))

\* A get_category_stats that takes the standard deviation of any non-empty list
GetCategoryStatsRaisesUnguarded(txns, category_id) ==
    LET Raises(n) == n # 0 /\ (StatisticsRaises("mean", n) \/ StatisticsRaises("stdev", n))
    IN Raises(Len(CategoryAmounts(txns, category_id)))

\* Whether SQLiteStore.get_category_stats raises: the mean of a non-empty list,
\* the standard deviation only when n > 1
GetCategoryStatsRaises(txns, category_id) ==
    LET Raises(n) ==
            n # 0 /\ (StatisticsRaises("mean", n) \/ (n > 1 /\ StatisticsRaises("stdev", n)))
    IN Raises(Len(CategoryAmounts(txns, category_id)))

\* A category check with inclusive fences that are not widened when iqr = 0
CategoryReasonsInclusive(txns, txn) ==
    IF txn.category_id = NULL THEN <<>>
    ELSE LET den == ANOMALY_IQR_MULTIPLIER_DEN
             num == ANOMALY_IQR_MULTIPLIER_NUM
             Fences(q1, q3, iqr, amount) ==
                 IF ~(q1 > 0 \/ q3 > 0) THEN <<>>
                 ELSE IF amount * den >= q3 * den + num * iqr
                      THEN <<"exceeds category normal range">>
                 ELSE IF amount * den <= q1 * den - num * iqr
                      THEN <<"below category normal range">>
                 ELSE <<>>
             Check(stats) == Fences(stats.q1, stats.q3, stats.q3 - stats.q1, Abs(txn.amount))
         IN Check(GetCategoryStats(txns, txn.category_id))

\* Check 1 of AnomalyDetector.detect: the reasons of the category check.  The
\* bounds are compared after multiplying through by the multiplier's denominator.
CategoryReasons(txns, txn) ==
    IF txn.category_id = NULL THEN <<>>
    ELSE LET den == ANOMALY_IQR_MULTIPLIER_DEN
             num == ANOMALY_IQR_MULTIPLIER_NUM
             Compare(amount, upper_bound, lower_bound) ==
                 IF amount * den > upper_bound THEN <<"exceeds category normal range">>
                 ELSE IF amount * den < lower_bound /\ lower_bound > 0
                      THEN <<"below category normal range">>
                 ELSE <<>>
             Fences(q1, q3, iqr, amount) ==
                 IF ~(q1 > 0 \/ q3 > 0) THEN <<>>
                 ELSE Compare(amount,
                              IF iqr = 0 THEN q3 * (den + num) ELSE q3 * den + num * iqr,
                              IF iqr = 0 THEN q1 * (den - num) ELSE q1 * den - num * iqr)
             Check(stats) == Fences(stats.q1, stats.q3, stats.q3 - stats.q1, Abs(txn.amount))
         IN Check(GetCategoryStats(txns, txn.category_id))

\* Twice statistics.median of the absolute amounts of all transactions
TwiceMedian(txns) ==
    LET Median2(all_amounts, n) ==
            IF n = 0 THEN 0
            ELSE IF n % 2 = 1 THEN 2 * all_amounts[(n \div 2) + 1]
            ELSE all_amounts[n \div 2] + all_amounts[(n \div 2) + 1]
        Of(all_amounts) == Median2(all_amounts, Len(all_amounts))
    IN Of(Sorted([i \in 1..Len(txns) |-> Abs(txns[i].amount)]))

\* A new-merchant check that takes the first transaction seen of any merchant
MerchantReasonsFirstSeen(txns, txn, seen) ==
    LET Check(threshold2) ==
            IF txn.merchant \notin seen /\ 2 * Abs(txn.amount) > threshold2 /\ threshold2 > 0
            THEN <<"new merchant with high amount">>
            ELSE <<>>
    IN Check(TwiceMedian(txns) * ANOMALY_MEDIAN_MULTIPLIER)

\* Check 2 of AnomalyDetector.detect: the reasons of the new-merchant check, for
\* the merchants seen so far in this run (seen_merchants_in_session).  The
\* threshold is compared doubled, as the median is kept doubled.
MerchantReasons(txns, txn, seen) ==
    LET merchant_txns == {i \in 1..Len(txns) : txns[i].merchant = txn.merchant}
        Check(threshold2) ==
            IF /\ txn.merchant \notin seen
               /\ Cardinality(merchant_txns) = 1
               /\ 2 * Abs(txn.amount) > threshold2
               /\ threshold2 > 0
            THEN <<"new merchant with high amount">>
            ELSE <<>>
    IN Check(TwiceMedian(txns) * ANOMALY_MEDIAN_MULTIPLIER)

\* get_all_transactions: the ids ORDER BY date (rows of one date in id order)
RECURSIVE IdsByDate(_, _)
IdsByDate(txns, todo) ==
    IF todo = {} THEN <<>>
    ELSE LET first == CHOOSE i \in todo : \A j \in todo :
                        \/ txns[i].date < txns[j].date
                        \/ txns[i].date = txns[j].date /\ i <= j
         IN <<first>> \o IdsByDate(txns, todo \ {first})

\* The loop of AnomalyDetector.detect over the transactions in the order given
RECURSIVE DetectAnomaliesIn(_, _, _)
DetectAnomaliesIn(txns, ids, seen) ==
    IF ids = <<>> THEN <<>>
    ELSE LET Anomaly(txn, reasons) ==
                 IF reasons = <<>> THEN <<>>
                 ELSE <<[transaction_id |-> ids[1], merchant |-> txn.merchant,
                         amount |-> txn.amount, reason |-> reasons]>>
             Checked(txn) ==
                 Anomaly(txn, CategoryReasons(txns, txn) \o MerchantReasons(txns, txn, seen))
                    \o DetectAnomaliesIn(txns, Tail(ids), seen \cup {txn.merchant})
         IN Checked(txns[ids[1]])

\* AnomalyDetector.detect
DetectAnomalies(txns) ==
    IF txns = <<>> THEN <<>> ELSE DetectAnomaliesIn(txns, IdsByDate(txns, 1..Len(txns)), {})

\* Whether AnomalyDetector.detect raises: the median of all amounts is taken of
\* a non-empty list, the statistics of every category a transaction has are read
DetectAnomaliesRaises(txns) ==
    /\ txns # <<>>
    /\ \/ StatisticsRaises("median", Len(txns))
       \/ \E i \in 1..Len(txns) :
            /\ txns[i].category_id # NULL
            /\ GetCategoryStatsRaises(txns, txns[i].category_id)

\* The marking loop of AnomalyDetector.detect_and_mark
RECURSIVE MarkAnomalies(_, _)
MarkAnomalies(txns, anomalies) ==
    IF anomalies = <<>> THEN txns
    ELSE MarkAnomalies(MarkTransactionAnomaly(txns, anomalies[1].transaction_id),
                       Tail(anomalies))

\* A transaction dict as CSVParser.parse returns it
Row(date, amount, merchant, description) ==
    [date |-> date, amount |-> amount, merchant |-> merchant, description |-> description]

(***************************************************************************)
(* CSVParser: text.  A Python str is a TLA+ string, of which SubSeq takes  *)
(* the characters.                                                         *)
(***************************************************************************)
Char(s, i) == SubSeq(s, i, i)

UpperLetters == "ABCDEFGHIJKLMNOPQRSTUVWXYZ"

LowerLetters == "abcdefghijklmnopqrstuvwxyz"

Digits == "0123456789"

LowerOf ==
    [c \in {Char(UpperLetters, i) : i \in 1..Len(UpperLetters)} |->
        Char(LowerLetters, CHOOSE i \in 1..Len(UpperLetters) : Char(UpperLetters, i) = c)]

LowerChar(c) == IF c \in DOMAIN LowerOf THEN LowerOf[c] ELSE c

\* str.lower()
RECURSIVE StrLower(_)
StrLower(s) == IF s = "" THEN "" ELSE LowerChar(Char(s, 1)) \o StrLower(Tail(s))

\* str.strip() of the blanks at both ends
RECURSIVE Strip(_)
Strip(s) ==
    IF s = "" THEN ""
    ELSE IF Char(s, 1) = " " THEN Strip(Tail(s))
    ELSE IF Char(s, Len(s)) = " " THEN Strip(SubSeq(s, 1, Len(s) - 1))
    ELSE s

\* sub in s
Contains(s, sub) ==
    \E i \in 0..(Len(s) - Len(sub)) : SubSeq(s, i + 1, i + Len(sub)) = sub

\* re.sub of a character class by the empty string
RECURSIVE RemoveChars(_, _)
RemoveChars(s, chars) ==
    IF s = "" THEN ""
    ELSE (IF Char(s, 1) \in chars THEN "" ELSE Char(s, 1)) \o RemoveChars(Tail(s), chars)

IsDigit(c) == \E i \in 1..Len(Digits) : Char(Digits, i) = c

AllDigits(s) == \A i \in 1..Len(s) : IsDigit(Char(s, i))

\* int() of a string of digits (0 for the empty string)
RECURSIVE NatOf(_)
NatOf(s) ==
    IF s = "" THEN 0
    ELSE 10 * NatOf(SubSeq(s, 1, Len(s) - 1))
         + (CHOOSE i \in 1..Len(Digits) : Char(Digits, i) = Char(s, Len(s))) - 1

\* The position of the first occurrence of character c in s, 0 when there is none
FirstIndex(s, c) ==
    IF \E i \in 1..Len(s) : Char(s, i) = c
    THEN CHOOSE i \in 1..Len(s) : Char(s, i) = c /\ \A j \in 1..(i - 1) : Char(s, j) # c
    ELSE 0

(***************************************************************************)
(* CSVParser: amounts.  A float is kept as the decimal <<m, k>> = m / 10^k *)
(* with no trailing zero in the fraction; an Optional[float] is the record *)
(* [ok, value], ok FALSE for None.                                         *)
(***************************************************************************)
RECURSIVE Decimal(_, _)
Decimal(m, k) == IF k > 0 /\ m % 10 = 0 THEN Decimal(m \div 10, k - 1) ELSE <<m, k>>

RECURSIVE Pow10(_)
Pow10(k) == IF k = 0 THEN 1 ELSE 10 * Pow10(k - 1)

NoAmount == [ok |-> FALSE, value |-> <<0, 0>>]

SomeAmount(value) == [ok |-> TRUE, value |-> value]

\* float(text) for the texts of signs, digits and a decimal point: blanks at the
\* ends are ignored; ValueError (no amount) for anything else
FloatOf(text) ==
    LET Value(negative, whole, fraction) ==
            IF AllDigits(whole) /\ AllDigits(fraction) /\ whole \o fraction # ""
            THEN SomeAmount(Decimal((IF negative THEN -1 ELSE 1)
                                      * (NatOf(whole) * Pow10(Len(fraction)) + NatOf(fraction)),
                                    Len(fraction)))
            ELSE NoAmount
        Unsigned(negative, body, dot) ==
            IF dot = 0 THEN Value(negative, body, "")
            ELSE Value(negative, SubSeq(body, 1, dot - 1), SubSeq(body, dot + 1, Len(body)))
        Body(negative, body) == Unsigned(negative, body, FirstIndex(body, "."))
        Signed(t) ==
            IF t # "" /\ Char(t, 1) \in {"-", "+"} THEN Body(Char(t, 1) = "-", Tail(t))
            ELSE Body(FALSE, t)
    IN Signed(Strip(text))

\* The values pandas hands over for a cell: NaN for an empty cell, a float for a
\* cell of a numeric column, the text of the cell otherwise
NaN == [kind |-> "nan", text |-> "", value |-> <<0, 0>>]

Number(value) == [kind |-> "number", text |-> "", value |-> value]

Text(text) == [kind |-> "text", text |-> text, value |-> <<0, 0>>]

\* An amount normalization that does not read parentheses as a minus sign
NormalizeAmountPlain(amount_val) ==
    IF amount_val.kind = "nan" THEN NoAmount
    ELSE IF amount_val.kind = "number" THEN SomeAmount(amount_val.value)
    ELSE FloatOf(RemoveChars(Strip(amount_val.text), {"$", ","}))

\* CSVParser._normalize_amount
NormalizeAmount(amount_val) ==
    IF amount_val.kind = "nan" THEN NoAmount
    ELSE IF amount_val.kind = "number" THEN SomeAmount(amount_val.value)
    ELSE LET Unwrap(stripped) ==
                 IF /\ stripped # ""
                    /\ Char(stripped, 1) = "("
                    /\ Char(stripped, Len(stripped)) = ")"
                 THEN "-" \o SubSeq(stripped, 2, Len(stripped) - 1)
                 ELSE stripped
         IN FloatOf(Unwrap(RemoveChars(Strip(amount_val.text), {"$", ","})))

(***************************************************************************)
(* CSVParser: dates.  datetime.strptime with the six formats of            *)
(* _normalize_date, a date being <<year, month, day>> and <<>> a           *)
(* ValueError.                                                             *)
(***************************************************************************)
\* str.split(sep)
RECURSIVE Split(_, _)
Split(text, sep) ==
    LET SplitAt(at) ==
            IF at = 0 THEN <<text>>
            ELSE <<SubSeq(text, 1, at - 1)>> \o Split(SubSeq(text, at + 1, Len(text)), sep)
    IN SplitAt(FirstIndex(text, sep))

MonthAbbreviations ==
    <<"jan", "feb", "mar", "apr", "may", "jun", "jul", "aug", "sep", "oct", "nov", "dec">>

\* The value of one strptime directive on a field of the text, 0 when the field
\* does not match it: %Y four digits, %y two digits (00..68 are 20xx), %m and %d
\* one or two digits, %b a month abbreviation in any case
Directive(d, field) ==
    LET Digits1(n) ==
            CASE d = "Y" -> IF Len(field) = 4 THEN n ELSE 0
              [] d = "y" -> IF Len(field) = 2 THEN (IF n < 69 THEN 2000 + n ELSE 1900 + n) ELSE 0
              [] d = "m" -> IF Len(field) \in {1, 2} /\ n \in 1..12 THEN n ELSE 0
              [] d = "d" -> IF Len(field) \in {1, 2} /\ n \in 1..31 THEN n ELSE 0
        Month(months) == IF months = {} THEN 0 ELSE CHOOSE i \in months : TRUE
    IN IF d = "b" THEN Month({i \in 1..12 : MonthAbbreviations[i] = StrLower(field)})
       ELSE IF AllDigits(field) THEN Digits1(NatOf(field))
       ELSE 0

DaysInMonth(year, month) ==
    CASE month \in {4, 6, 9, 11} -> 30
      [] month = 2 -> IF year % 4 = 0 /\ (year % 100 # 0 \/ year % 400 = 0) THEN 29 ELSE 28
      [] OTHER -> 31

\* "%Y-%m-%d", "%m/%d/%Y", "%m/%d/%y", "%d-%b-%Y", "%d/%m/%Y", "%Y/%m/%d"
DateFormats ==
    <<[sep |-> "-", year |-> 1, month |-> 2, day |-> 3, y |-> "Y", m |-> "m"],
      [sep |-> "/", year |-> 3, month |-> 1, day |-> 2, y |-> "Y", m |-> "m"],
      [sep |-> "/", year |-> 3, month |-> 1, day |-> 2, y |-> "y", m |-> "m"],
      [sep |-> "-", year |-> 3, month |-> 2, day |-> 1, y |-> "Y", m |-> "b"],
      [sep |-> "/", year |-> 3, month |-> 2, day |-> 1, y |-> "Y", m |-> "m"],
      [sep |-> "/", year |-> 1, month |-> 2, day |-> 3, y |-> "Y", m |-> "m"]>>

\* datetime.strptime(date_str, fmt)
Strptime(date_str, fmt) ==
    LET Date(year, month, day) ==
            IF year = 0 \/ month = 0 \/ day = 0 THEN <<>>
            ELSE IF day > DaysInMonth(year, month) THEN <<>>
            ELSE <<year, month, day>>
        Fields(fields) ==
            IF Len(fields) # 3 THEN <<>>
            ELSE Date(Directive(fmt.y, fields[fmt.year]), Directive(fmt.m, fields[fmt.month]),
                      Directive("d", fields[fmt.day]))
    IN Fields(Split(date_str, fmt.sep))

\* str(n) of a natural number
RECURSIVE NatStr(_)
NatStr(n) == IF n < 10 THEN Char(Digits, n + 1) ELSE NatStr(n \div 10) \o Char(Digits, (n % 10) + 1)

RECURSIVE ZeroPad(_, _)
ZeroPad(text, width) == IF Len(text) >= width THEN text ELSE ZeroPad("0" \o text, width)

\* dt.strftime("%Y-%m-%d")
Strftime(dt) ==
    ZeroPad(NatStr(dt[1]), 4) \o "-" \o ZeroPad(NatStr(dt[2]), 2) \o "-" \o ZeroPad(NatStr(dt[3]), 2)

\* pd.to_datetime(date_str), the fallback of _normalize_date: of the texts the
\* six formats reject, the files of the model hold only texts with no date in
\* them, on which the pandas parser raises
PandasToDatetime(date_str) == <<>>

RECURSIVE TryDateFormats(_, _)
TryDateFormats(date_str, i) ==
    LET OrNext(dt) == IF dt # <<>> THEN dt ELSE TryDateFormats(date_str, i + 1)
    IN IF i > Len(DateFormats) THEN PandasToDatetime(date_str)
       ELSE OrNext(Strptime(date_str, DateFormats[i]))

\* CSVParser._normalize_date: the ISO text, NoText for None
NormalizeDate(date_val) ==
    IF date_val.kind = "nan" THEN NoText
    ELSE LET Iso(dt) == IF dt = <<>> THEN NoText ELSE Strftime(dt)
         IN Iso(TryDateFormats(Strip(date_val.text), 1))

(***************************************************************************)
(* CSVParser: files and rows.  A file is the DataFrame pandas reads from   *)
(* it: [columns, rows], a row the texts of its cells in column order, ""   *)
(* for an empty cell.                                                      *)
(***************************************************************************)
\* CSVParser._clean_dataframe: column names stripped, rows of empty cells dropped
CleanDataframe(df) ==
    [columns |-> [i \in 1..Len(df.columns) |-> Strip(df.columns[i])],
     rows |-> SelectSeq(df.rows, LAMBDA row : \E i \in 1..Len(row) : row[i] # "")]

\* A column is numeric when pandas reads a number in each of its non-empty cells
NumericColumn(df, c) ==
    \A r \in 1..Len(df.rows) : df.rows[r][c] = "" \/ FloatOf(df.rows[r][c]).ok

\* The value of a cell of the DataFrame
CellValue(df, r, c) ==
    LET Typed(cell, numeric) ==
            IF cell = "" THEN NaN
            ELSE IF numeric THEN Number(FloatOf(cell).value)
            ELSE Text(cell)
    IN Typed(df.rows[r][c], NumericColumn(df, c))

\* The pd.Series of row r: column name -> value
RowSeries(df, r) ==
    [columns |-> df.columns, values |-> [c \in 1..Len(df.columns) |-> CellValue(df, r, c)]]

\* row.get(key): None, which pd.isna takes for missing, when no column has the name
RowGet(row, key) ==
    IF \E c \in 1..Len(row.columns) : row.columns[c] = key
    THEN row.values[CHOOSE c \in 1..Len(row.columns) : row.columns[c] = key]
    ELSE NaN

\* columns_lower.get(name) of {str(c).lower(): c for c in df.columns}: the last
\* column of that lowercased name, "" when there is none
ColumnNamed(columns, name) ==
    LET Last(hits) ==
            IF hits = {} THEN "" ELSE columns[CHOOSE c \in hits : \A d \in hits : d <= c]
    IN Last({c \in 1..Len(columns) : StrLower(columns[c]) = name})

\* The first name of a synonym list that a column carries, skipping the column
\* named by taken: the column, "" when there is none
RECURSIVE FirstNamed(_, _, _)
FirstNamed(columns, names, taken) ==
    LET OrNext(col) ==
            IF col # "" /\ col # taken THEN col ELSE FirstNamed(columns, Tail(names), taken)
    IN IF names = <<>> THEN "" ELSE OrNext(ColumnNamed(columns, Head(names)))

DATE_COLUMNS ==
    <<"date", "transaction date", "trans date", "posted date", "trans_date",
      "posting date", "post date", "effective date", "datetime", "trans. date",
      "clearing date", "settlement date", "value date">>

AMOUNT_COLUMNS ==
    <<"amount", "trans_amt", "transaction amount", "debit/credit", "value",
      "gross", "net", "total", "amount (total)", "sum">>

DEBIT_COLUMNS ==
    <<"debit", "debited", "withdrawals", "withdrawal", "outflow", "expense",
      "payment", "charge", "money out">>

CREDIT_COLUMNS ==
    <<"credit", "credited", "deposits", "deposit", "inflow", "income",
      "refund", "money in">>

MERCHANT_COLUMNS ==
    <<"merchant", "payee", "description", "payee_name", "vendor", "name",
      "to", "recipient", "store", "company", "transaction">>

DESC_COLUMNS ==
    <<"description", "memo", "notes", "details", "original description",
      "address", "category", "note", "reference">>

BALANCE_COLUMNS ==
    <<"balance", "running balance", "available balance", "ledger balance">>

\* CSVParser._get_column_mapping of a parser without a custom mapping; "" for a
\* key the mapping does not hold
GetColumnMapping(df) ==
    LET Mapping(merchant) ==
            [date |-> FirstNamed(df.columns, DATE_COLUMNS, ""),
             amount |-> FirstNamed(df.columns, AMOUNT_COLUMNS, ""),
             merchant |-> merchant,
             description |-> FirstNamed(df.columns, DESC_COLUMNS, merchant)]
    IN Mapping(FirstNamed(df.columns, MERCHANT_COLUMNS, ""))

\* str(val) of a cell value, a number being a whole number of an integer column
CellStr(val) ==
    IF val.kind = "text" THEN val.text
    ELSE (IF val.value[1] < 0 THEN "-" ELSE "") \o NatStr(Abs(val.value[1]))

NoTransaction == [ok |-> FALSE, txn |-> Row(NoText, <<0, 0>>, NoText, NoText)]

\* CSVParser._row_to_transaction: [ok, txn], ok FALSE for None
RowToTransaction(row, mapping) ==
    LET Normalized(date_str, amount, merchant_val, desc_val) ==
            IF date_str = NoText THEN NoTransaction
            ELSE IF ~amount.ok THEN NoTransaction
            ELSE [ok |-> TRUE,
                  txn |-> Row(date_str, amount.value,
                              IF merchant_val.kind = "nan" THEN "UNKNOWN"
                              ELSE Strip(CellStr(merchant_val)),
                              IF desc_val.kind = "nan" THEN NoText
                              ELSE Strip(CellStr(desc_val)))]
        Extracted(date_val, amount_val) ==
            IF date_val.kind = "nan" \/ amount_val.kind = "nan" THEN NoTransaction
            ELSE Normalized(NormalizeDate(date_val), NormalizeAmount(amount_val),
                            RowGet(row, mapping.merchant), RowGet(row, mapping.description))
    IN Extracted(RowGet(row, mapping.date), RowGet(row, mapping.amount))

\* The rows of the cleaned DataFrame that _row_to_transaction turns into a
\* transaction, in order
RECURSIVE ConvertRows(_, _, _)
ConvertRows(df, mapping, r) ==
    IF r > Len(df.rows) THEN <<>>
    ELSE LET Kept(txn) == IF txn.ok THEN <<txn.txn>> ELSE <<>>
         IN Kept(RowToTransaction(RowSeries(df, r), mapping)) \o ConvertRows(df, mapping, r + 1)

\* CSVParser.parse(file_path), file being what _read_file returns for the path
Parse(file) ==
    LET Transactions(df) ==
            IF df.rows = <<>> THEN <<>> ELSE ConvertRows(df, GetColumnMapping(df), 1)
    IN Transactions(CleanDataframe(file))

(***************************************************************************)
(* CSVParser: format profiles and detect_format.                           *)
(***************************************************************************)
\* BANK_FORMATS in the order of the dict; "" for a key a mapping does not hold
\* or holds None for
BANK_FORMATS ==
    <<[id |-> "chase_credit", institution |-> "Chase",
       headers |-> <<"Transaction Date", "Post Date", "Description", "Category", "Type", "Amount">>,
       signature_columns |-> <<"Transaction Date", "Post Date", "Category", "Type">>,
       mapping |-> [date |-> "Transaction Date", merchant |-> "Description", amount |-> "Amount",
                    debit_column |-> "", credit_column |-> "",
                    description |-> "Category"]],
      [id |-> "chase_checking", institution |-> "Chase",
       headers |-> <<"Details", "Posting Date", "Description", "Amount", "Type", "Balance", "Check or Slip #">>,
       signature_columns |-> <<"Details", "Posting Date", "Check or Slip #">>,
       mapping |-> [date |-> "Posting Date", merchant |-> "Description", amount |-> "Amount",
                    debit_column |-> "", credit_column |-> "",
                    description |-> "Details"]],
      [id |-> "bofa", institution |-> "Bank of America",
       headers |-> <<"Posted Date", "Reference Number", "Payee", "Address", "Amount">>,
       signature_columns |-> <<"Reference Number", "Payee", "Address">>,
       mapping |-> [date |-> "Posted Date", merchant |-> "Payee", amount |-> "Amount",
                    debit_column |-> "", credit_column |-> "",
                    description |-> "Address"]],
      [id |-> "wells_fargo", institution |-> "Wells Fargo",
       headers |-> <<"Date", "Amount", "Description">>,
       signature_columns |-> <<>>,
       mapping |-> [date |-> "Date", merchant |-> "Description", amount |-> "Amount",
                    debit_column |-> "", credit_column |-> "",
                    description |-> ""]],
      [id |-> "capital_one", institution |-> "Capital One",
       headers |-> <<"Transaction Date", "Posted Date", "Card No.", "Description", "Category", "Debit", "Credit">>,
       signature_columns |-> <<"Card No.", "Debit", "Credit">>,
       mapping |-> [date |-> "Transaction Date", merchant |-> "Description", amount |-> "Debit",
                    debit_column |-> "Debit", credit_column |-> "Credit",
                    description |-> "Category"]],
      [id |-> "citi", institution |-> "Citi",
       headers |-> <<"Status", "Date", "Description", "Debit", "Credit">>,
       signature_columns |-> <<"Status", "Debit", "Credit">>,
       mapping |-> [date |-> "Date", merchant |-> "Description", amount |-> "Debit",
                    debit_column |-> "Debit", credit_column |-> "Credit",
                    description |-> ""]],
      [id |-> "amex", institution |-> "American Express",
       headers |-> <<"Date", "Description", "Card Member", "Account #", "Amount">>,
       signature_columns |-> <<"Card Member", "Account #">>,
       mapping |-> [date |-> "Date", merchant |-> "Description", amount |-> "Amount",
                    debit_column |-> "", credit_column |-> "",
                    description |-> ""]],
      [id |-> "discover", institution |-> "Discover",
       headers |-> <<"Trans. Date", "Post Date", "Description", "Amount", "Category">>,
       signature_columns |-> <<"Trans. Date", "Post Date", "Category">>,
       mapping |-> [date |-> "Trans. Date", merchant |-> "Description", amount |-> "Amount",
                    debit_column |-> "", credit_column |-> "",
                    description |-> "Category"]],
      [id |-> "usaa", institution |-> "USAA",
       headers |-> <<"Date", "Description", "Original Description", "Category", "Amount">>,
       signature_columns |-> <<"Original Description">>,
       mapping |-> [date |-> "Date", merchant |-> "Description", amount |-> "Amount",
                    debit_column |-> "", credit_column |-> "",
                    description |-> "Original Description"]],
      [id |-> "navy_federal", institution |-> "Navy Federal",
       headers |-> <<"Date", "Description", "Amount", "Balance">>,
       signature_columns |-> <<"Balance">>,
       mapping |-> [date |-> "Date", merchant |-> "Description", amount |-> "Amount",
                    debit_column |-> "", credit_column |-> "",
                    description |-> ""]],
      [id |-> "pnc", institution |-> "PNC",
       headers |-> <<"Date", "Description", "Withdrawals", "Deposits", "Balance">>,
       signature_columns |-> <<"Withdrawals", "Deposits", "Balance">>,
       mapping |-> [date |-> "Date", merchant |-> "Description", amount |-> "Withdrawals",
                    debit_column |-> "Withdrawals", credit_column |-> "Deposits",
                    description |-> ""]],
      [id |-> "td_bank", institution |-> "TD Bank",
       headers |-> <<"Date", "Activity", "Credited", "Debited">>,
       signature_columns |-> <<"Activity", "Credited", "Debited">>,
       mapping |-> [date |-> "Date", merchant |-> "Activity", amount |-> "Debited",
                    debit_column |-> "Debited", credit_column |-> "Credited",
                    description |-> ""]],
      [id |-> "us_bank", institution |-> "US Bank",
       headers |-> <<"Date", "Transaction", "Name", "Memo", "Amount">>,
       signature_columns |-> <<"Transaction", "Name", "Memo">>,
       mapping |-> [date |-> "Date", merchant |-> "Name", amount |-> "Amount",
                    debit_column |-> "", credit_column |-> "",
                    description |-> "Memo"]],
      [id |-> "mint", institution |-> "Mint",
       headers |-> <<"Date", "Description", "Original Description", "Amount", "Transaction Type", "Category", "Account Name">>,
       signature_columns |-> <<"Original Description", "Transaction Type", "Account Name">>,
       mapping |-> [date |-> "Date", merchant |-> "Description", amount |-> "Amount",
                    debit_column |-> "", credit_column |-> "",
                    description |-> "Original Description"]],
      [id |-> "venmo", institution |-> "Venmo",
       headers |-> <<"ID", "Datetime", "Type", "Status", "Note", "From", "To", "Amount (total)", "Amount (fee)">>,
       signature_columns |-> <<"ID", "Datetime", "Type", "Status", "Note", "From", "To">>,
       mapping |-> [date |-> "Datetime", merchant |-> "Note", amount |-> "Amount (total)",
                    debit_column |-> "", credit_column |-> "",
                    description |-> "Type"]],
      [id |-> "paypal", institution |-> "PayPal",
       headers |-> <<"Date", "Time", "TimeZone", "Name", "Type", "Status", "Currency", "Gross", "Fee", "Net">>,
       signature_columns |-> <<"TimeZone", "Currency", "Gross", "Fee", "Net">>,
       mapping |-> [date |-> "Date", merchant |-> "Name", amount |-> "Gross",
                    debit_column |-> "", credit_column |-> "",
                    description |-> "Type"]],
      [id |-> "apple_card", institution |-> "Apple",
       headers |-> <<"Transaction Date", "Clearing Date", "Description", "Merchant", "Category", "Type", "Amount">>,
       signature_columns |-> <<"Clearing Date", "Merchant", "Type">>,
       mapping |-> [date |-> "Transaction Date", merchant |-> "Merchant", amount |-> "Amount",
                    debit_column |-> "", credit_column |-> "",
                    description |-> "Category"]],
      [id |-> "sofi", institution |-> "SoFi",
       headers |-> <<"Date", "Description", "Type", "Amount", "Balance">>,
       signature_columns |-> <<"Type", "Balance">>,
       mapping |-> [date |-> "Date", merchant |-> "Description", amount |-> "Amount",
                    debit_column |-> "", credit_column |-> "",
                    description |-> "Type"]],
      [id |-> "ally", institution |-> "Ally",
       headers |-> <<"Date", "Time", "Amount", "Type", "Description">>,
       signature_columns |-> <<"Time", "Type">>,
       mapping |-> [date |-> "Date", merchant |-> "Description", amount |-> "Amount",
                    debit_column |-> "", credit_column |-> "",
                    description |-> "Type"]],
      [id |-> "marcus", institution |-> "Goldman Sachs",
       headers |-> <<"Date", "Description", "Amount", "Balance">>,
       signature_columns |-> <<>>,
       mapping |-> [date |-> "Date", merchant |-> "Description", amount |-> "Amount",
                    debit_column |-> "", credit_column |-> "",
                    description |-> ""]],
      [id |-> "alliant", institution |-> "Alliant",
       headers |-> <<"Post Date", "Effective Date", "Transaction Type", "Description", "Amount", "Balance">>,
       signature_columns |-> <<"Post Date", "Effective Date", "Transaction Type">>,
       mapping |-> [date |-> "Post Date", merchant |-> "Description", amount |-> "Amount",
                    debit_column |-> "", credit_column |-> "",
                    description |-> "Transaction Type"]],
      [id |-> "ynab", institution |-> "YNAB",
       headers |-> <<"Account", "Flag", "Date", "Payee", "Category Group/Category", "Category Group", "Category", "Memo", "Outflow", "Inflow", "Cleared">>,
       signature_columns |-> <<"Account", "Flag", "Payee", "Category Group/Category", "Outflow", "Inflow", "Cleared">>,
       mapping |-> [date |-> "Date", merchant |-> "Payee", amount |-> "Outflow",
                    debit_column |-> "Outflow", credit_column |-> "Inflow",
                    description |-> "Memo"]],
      [id |-> "personal_capital", institution |-> "Empower",
       headers |-> <<"Date", "Account", "Description", "Category", "Tags", "Amount">>,
       signature_columns |-> <<"Account", "Category", "Tags">>,
       mapping |-> [date |-> "Date", merchant |-> "Description", amount |-> "Amount",
                    debit_column |-> "", credit_column |-> "",
                    description |-> "Category"]],
      [id |-> "generic", institution |-> "Unknown",
       headers |-> <<"Date", "Amount", "Merchant", "Description">>,
       signature_columns |-> <<>>,
       mapping |-> [date |-> "Date", merchant |-> "Merchant", amount |-> "Amount",
                    debit_column |-> "", credit_column |-> "",
                    description |-> "Description"]]>>

Generic == CHOOSE i \in 1..Len(BANK_FORMATS) : BANK_FORMATS[i].id = "generic"

\* any(name_lower == h or name_lower in h for h in headers_lower)
Present(name, headers_lower) ==
    LET name_lower == StrLower(name)
    IN \E i \in 1..Len(headers_lower) : Contains(headers_lower[i], name_lower)

CountPresent(names, headers_lower) ==
    Cardinality({i \in 1..Len(names) : Present(names[i], headers_lower)})

SignatureWeight == 3

FilenameBonus == 5

\* The score detect_format gives a profile; filename "" for None
Score(config, headers_lower, filename) ==
    SignatureWeight * CountPresent(config.signature_columns, headers_lower)
    + CountPresent(config.headers, headers_lower)
    + (IF filename # "" /\ config.institution # ""
          /\ Contains(StrLower(filename), StrLower(config.institution))
       THEN FilenameBonus ELSE 0)

\* A loop that lets a later profile of the same score take the place of the best
RECURSIVE BestMatchLast(_, _, _, _, _)
BestMatchLast(headers_lower, filename, i, best_match, best_score) ==
    IF i > Len(BANK_FORMATS) THEN best_match
    ELSE IF i = Generic THEN BestMatchLast(headers_lower, filename, i + 1, best_match, best_score)
    ELSE LET score == Score(BANK_FORMATS[i], headers_lower, filename)
         IN IF score >= best_score
            THEN BestMatchLast(headers_lower, filename, i + 1, i, score)
            ELSE BestMatchLast(headers_lower, filename, i + 1, best_match, best_score)

\* The loop of detect_format over BANK_FORMATS.items() from profile i on
RECURSIVE BestMatch(_, _, _, _, _)
BestMatch(headers_lower, filename, i, best_match, best_score) ==
    IF i > Len(BANK_FORMATS) THEN best_match
    ELSE IF i = Generic THEN BestMatch(headers_lower, filename, i + 1, best_match, best_score)
    ELSE LET score == Score(BANK_FORMATS[i], headers_lower, filename)
         IN IF score > best_score
            THEN BestMatch(headers_lower, filename, i + 1, i, score)
            ELSE BestMatch(headers_lower, filename, i + 1, best_match, best_score)

\* CSVParser.detect_format(file_path, filename): the position in BANK_FORMATS of
\* the profile returned, columns being the header row of the file
DetectFormat(columns, filename) ==
    BestMatch([i \in 1..Len(columns) |-> StrLower(Strip(columns[i]))], filename, 1, Generic, 0)

(***************************************************************************)
(* CSVParser: _smart_detect_columns.  A column is "" where the code holds  *)
(* None.                                                                   *)
(***************************************************************************)
\* df[col].dropna().head(n): the values of the first n non-empty cells of column c
Sample(df, c, n) ==
    LET Head1(filled) ==
            [i \in 1..(IF Len(filled) < n THEN Len(filled) ELSE n) |->
                CellValue(df, filled[i], c)]
    IN Head1(SelectSeq([r \in 1..Len(df.rows) |-> r], LAMBDA r : df.rows[r][c] # ""))

\* The first of the columns that a data analysis accepts
FirstColumn(df, accepted) ==
    IF accepted = {} THEN ""
    ELSE df.columns[CHOOSE c \in accepted : \A d \in accepted : c <= d]

\* CSVParser._find_date_column: by name, then the first column with a date in
\* 70% of its sample
FindDateColumn(df) ==
    LET Dates(sample) ==
            /\ Len(sample) # 0
            /\ 10 * Cardinality({i \in 1..Len(sample) : NormalizeDate(sample[i]) # NoText})
                 >= 7 * Len(sample)
        OrByData(named) ==
            IF named # "" THEN named
            ELSE FirstColumn(df, {c \in 1..Len(df.columns) : Dates(Sample(df, c, 10))})
    IN OrByData(FirstNamed(df.columns, DATE_COLUMNS, ""))

\* CSVParser._find_amount_columns: debit and credit by name, the single column
\* by name only when neither is found, and by data (an amount in 80% of the
\* sample of a column not named like a balance) when no single and no debit
\* column is found
FindAmountColumns(df) ==
    LET Amounts(sample) ==
            /\ Len(sample) # 0
            /\ 10 * Cardinality({i \in 1..Len(sample) : NormalizeAmount(sample[i]).ok})
                 >= 8 * Len(sample)
        BalanceLike(col_lower) == Contains(col_lower, "balance") \/ Contains(col_lower, "running")
        Result(debit, credit, named) ==
            [single |-> IF named = "" /\ debit = ""
                        THEN FirstColumn(df, {c \in 1..Len(df.columns) :
                                                /\ Amounts(Sample(df, c, 20))
                                                /\ ~BalanceLike(StrLower(df.columns[c]))})
                        ELSE named,
             debit |-> debit, credit |-> credit]
        Split1(debit, credit) ==
            Result(debit, credit,
                   IF debit = "" /\ credit = "" THEN FirstNamed(df.columns, AMOUNT_COLUMNS, "")
                   ELSE "")
    IN Split1(FirstNamed(df.columns, DEBIT_COLUMNS, ""), FirstNamed(df.columns, CREDIT_COLUMNS, ""))

\* The first name of a synonym list carried by a column that is not in use
RECURSIVE FirstUnused(_, _, _)
FirstUnused(columns, names, used_columns) ==
    LET OrNext(col) ==
            IF col \notin used_columns \cup {""} THEN col
            ELSE FirstUnused(columns, Tail(names), used_columns)
    IN IF names = <<>> THEN "" ELSE OrNext(ColumnNamed(columns, Head(names)))

\* CSVParser._find_merchant_column: by name, then the first unused column whose
\* sample of five values or more is more than half unique and longer than five
\* characters on average
FindMerchantColumn(df, used_columns) ==
    LET Varied(texts) ==
            /\ Len(texts) >= 5
            /\ 2 * Cardinality(Range(texts)) > Len(texts)
            /\ SumSeq([i \in 1..Len(texts) |-> Len(texts[i])]) > 5 * Len(texts)
        Texts(sample) == [i \in 1..Len(sample) |-> CellStr(sample[i])]
        OrByData(named) ==
            IF named # "" THEN named
            ELSE FirstColumn(df, {c \in 1..Len(df.columns) :
                                    /\ df.columns[c] \notin used_columns
                                    /\ Varied(Texts(Sample(df, c, 20)))})
    IN OrByData(FirstUnused(df.columns, MERCHANT_COLUMNS, used_columns))

\* CSVParser._smart_detect_columns(df, format_info)
SmartDetectColumns(df, format_info) ==
    LET Kept(col_name) == IF \E c \in 1..Len(df.columns) : df.columns[c] = col_name
                          THEN col_name ELSE ""
        format_mapping == format_info.mapping
        Used(mapping) == {mapping[field] : field \in DOMAIN mapping} \ {""}
        Balance(mapping) ==
            [mapping EXCEPT !.balance_column = FirstNamed(df.columns, BALANCE_COLUMNS, "")]
        Described(mapping) ==
            Balance(IF mapping.description_column = ""
                    THEN [mapping EXCEPT
                            !.description_column =
                                FirstUnused(df.columns, DESC_COLUMNS, Used(mapping))]
                    ELSE mapping)
        Merchants(mapping) ==
            Described(IF mapping.merchant_column = ""
                      THEN [mapping EXCEPT
                              !.merchant_column = FindMerchantColumn(df, Used(mapping))]
                      ELSE mapping)
        Found(mapping, amount_cols) ==
            [mapping EXCEPT
               !.amount_column = amount_cols.single,
               !.debit_column = amount_cols.debit,
               !.credit_column = IF amount_cols.credit # "" THEN amount_cols.credit ELSE @]
        Amounts(mapping) ==
            Merchants(IF mapping.amount_column = "" /\ mapping.debit_column = ""
                      THEN Found(mapping, FindAmountColumns(df))
                      ELSE mapping)
        Dated(mapping) ==
            Amounts(IF mapping.date_column = ""
                    THEN [mapping EXCEPT !.date_column = FindDateColumn(df)]
                    ELSE mapping)
    IN Dated([date_column |-> Kept(format_mapping.date),
              amount_column |-> Kept(format_mapping.amount),
              merchant_column |-> Kept(format_mapping.merchant),
              description_column |-> Kept(format_mapping.description),
              debit_column |-> Kept(format_mapping.debit_column),
              credit_column |-> Kept(format_mapping.credit_column),
              balance_column |-> ""])

(***************************************************************************)
(* The inputs of the operations.                                           *)
(***************************************************************************)
\* The dates of successive statements
StatementDates == <<1, 31, 62, 90, 121, 151>>

DateIndex(date) == CHOOSE i \in 1..Len(StatementDates) : StatementDates[i] = date

StoredRows(txns) ==
    {Row(txns[i].date, txns[i].amount, txns[i].merchant, txns[i].description) :
        i \in 1..Len(txns)}

\* The files, of one or two rows, of statements that arrive in date order: a row
\* repeats the last stored row or is dated the first statement date after every
\* date stored or met so far, and a file of two rows ends with a new row
StatementFiles(txns) ==
    LET n == Len(txns)
        last == IF n + 2 < Len(StatementDates) THEN n + 2 ELSE Len(StatementDates)
        fresh == {Row(StatementDates[d], -15, "NETFLIX", NoText) : d \in (n + 1)..last}
        repeated == IF n = 0 THEN {} ELSE StoredRows(SubSeq(txns, n, n))
        InOrder(f) ==
            \A i \in 1..Len(f) :
                \/ f[i] \in repeated \cup {f[j] : j \in 1..(i - 1)}
                \/ DateIndex(f[i].date) =
                     1 + Cardinality({txns[j].date : j \in 1..n}
                                     \cup {f[j].date : j \in 1..(i - 1)})
        rows == repeated \cup fresh
    IN {f \in {<<r>> : r \in rows} \cup {<<r, s>> : r \in rows, s \in fresh} :
            InOrder(f) /\ (Len(f) = 2 => f[1] # f[2])}

\* The category names a user may hand to categorize_transaction
ManualNames == {"Entertainment", "Groceries"}

\* Rows for the store: a row, the rows that differ from it in the date, the
\* amount or the merchant only, and the row that differs in the description only
StoreRows ==
    {Row(1, -15, "NETFLIX", NoText), Row(31, -15, "NETFLIX", NoText),
     Row(1, -500, "NETFLIX", NoText), Row(1, -15, "GROCERY", NoText),
     Row(1, -15, "NETFLIX", "Streaming")}

\* The files of at most two of these rows
StoreFiles == {<<>>} \cup {<<r>> : r \in StoreRows} \cup {<<r, s>> : r, s \in StoreRows}

\* Rows for the recurring detector: two merchants, each charged on days 1, 31, 40
DetectRows ==
    {Row(d, -15, m, NoText) : d \in {1, 31, 40}, m \in {"NETFLIX", "GROCERY"}}

\* The labels of index entries: seeded category names, and the name of a category
\* the categorizer's cached category map does not hold
IndexLabels == {"Entertainment", "Other", "Pets"}

\* The indexes add_embedding can have built: every entry a charge of 15 with no
\* description, at the merchant of the query under one of the labels or at
\* another merchant under the label "Other"
Indexes ==
    LET entries == ({"NETFLIX"} \X IndexLabels) \cup {<<"GROCERY", "Other">>}
    IN {[i \in 1..Len(e) |-> AddEmbedding(<<>>, i, EmbedTransaction(e[i][1], NoText, -15),
                                     e[i][1], e[i][2], -15)[1]] :
           e \in UNION {[1..n -> entries] : n \in 0..MaxIndex}}

\* The transaction dict handed to categorize
QueryTxn == [id |-> 100, merchant |-> "NETFLIX", description |-> NoText, amount |-> -15]

\* Gaps in days between consecutive charges of one (merchant, amount) group
GapValues == {4, 7, 10, 11, 28, 30, 31, 35, 45, 90, 94, 358, 365, 373}

\* The store holding a group charged on day 1 and then after each of the gaps,
\* inserted in date order or in the reverse of it
RECURSIVE DatesOfGaps(_, _)
DatesOfGaps(first, gaps) ==
    IF gaps = <<>> THEN <<first>>
    ELSE <<first>> \o DatesOfGaps(first + gaps[1], Tail(gaps))

GapStore(gaps, reversed) ==
    LET dates == DatesOfGaps(1, gaps)
        n == Len(dates)
    IN [i \in 1..n |-> NewTransaction(IF reversed THEN dates[n + 1 - i] ELSE dates[i],
                                      -15, "NETFLIX", NoText, NULL)]

GapStores ==
    {GapStore(gaps, reversed) :
        gaps \in UNION {[1..n -> GapValues] : n \in 0..MaxGaps}, reversed \in BOOLEAN}

\* Amounts of the transactions of one category
AnomalyAmounts == {0, -48, -49, 50, -50, -55, -500}

\* The stores holding one to MaxCategoryTxns transactions of category 2, one a
\* day, the last of them possibly uncategorized
AnomalyStores ==
    {[i \in 1..Len(amounts) |-> NewTransaction(i, amounts[i], "GROCERY", NoText,
                                IF uncategorized /\ i = Len(amounts) THEN NULL ELSE 2)] :
        amounts \in UNION {[1..n -> AnomalyAmounts] : n \in 1..MaxCategoryTxns},
        uncategorized \in BOOLEAN}

\* The merchants and amounts of the transactions handed to both detectors
DetectorMerchants == {"AMAZON", "GROCERY", "NETFLIX"}

DetectorAmounts == {0, -10, 20, -61}

\* The category a detector store gives a merchant's transactions: groceries are
\* Food & Dining, Netflix is Entertainment, Amazon purchases are uncategorized
DetectorCategory(merchant) ==
    IF merchant = "GROCERY" THEN 2 ELSE IF merchant = "NETFLIX" THEN 1 ELSE NULL

\* The stores of no to MaxDetectorTxns transactions, one a week
DetectorStores ==
    {[i \in 1..Len(rows) |-> NewTransaction(7 * i, rows[i][2], rows[i][1], NoText,
                                            DetectorCategory(rows[i][1]))] :
        rows \in UNION {[1..n -> DetectorMerchants \X DetectorAmounts] :
                          n \in 0..MaxDetectorTxns}}

\* The store of new, uncategorized transactions handed to categorize_and_update:
\* two monthly charges of one merchant and a large purchase at another
UpdateStore ==
    <<NewTransaction(1, -15, "NETFLIX", NoText, NULL),
      NewTransaction(31, -15, "NETFLIX", NoText, NULL),
      NewTransaction(40, -500, "GROCERY", NoText, NULL)>>

\* The indexes, of at most MaxUpdateIndex entries, that earlier categorizations
\* of Netflix charges left: entries all labelled Entertainment or all Other
UpdateIndexes ==
    {[i \in 1..n |->
        [transaction_id |-> 100 + i,
         vector |-> EmbedTransaction("NETFLIX", NoText, -15), merchant |-> "NETFLIX",
         category |-> label, amount |-> -15]] :
      n \in 0..MaxUpdateIndex, label \in {"Entertainment", "Other"}}

\* The characters of the amount cells
AmountCharacters == {"$", ",", "(", ")", "-", "+", ".", "5", "0", " ", "x"}

RECURSIVE TextsUpTo(_, _)
TextsUpTo(characters, n) ==
    IF n = 0 THEN {""}
    ELSE TextsUpTo(characters, n - 1)
         \cup {t \o c : t \in TextsUpTo(characters, n - 1), c \in characters}

\* The amount cells: every text of up to MaxAmountLen characters, and amounts
\* as statements write them
AmountTexts ==
    TextsUpTo(AmountCharacters, MaxAmountLen)
    \cup {"$-45.99", "(125.50)", "100.00", "$1,250.00", "($1,250.00)", "-$5.00"}

\* The values pandas may hand over for a cell of the text: NaN for the empty
\* cell, the text, or its number when the column of the cell is numeric
AmountValues(cell) ==
    IF cell = "" THEN {NaN}
    ELSE {Text(cell)} \cup (IF FloatOf(cell).ok THEN {Number(FloatOf(cell).value)} ELSE {})

\* A file of one row with the amount cell
AmountFile(cell) ==
    [columns |-> <<"Date", "Description", "Amount">>,
     rows |-> <<<<"2024-01-15", "COFFEE SHOP", cell>>>>]

\* The header rows: the expected header list of a profile, whole or with one
\* header left out
HeaderRows ==
    UNION {{BANK_FORMATS[p].headers}
           \cup {SubSeq(BANK_FORMATS[p].headers, 1, i - 1)
                 \o SubSeq(BANK_FORMATS[p].headers, i + 1, Len(BANK_FORMATS[p].headers)) :
                    i \in 1..Len(BANK_FORMATS[p].headers)} :
           p \in 1..Len(BANK_FORMATS)}

\* The original filenames: none, one that names no institution, two that do
Filenames == {"", "export.csv", "Chase_Activity.csv", "goldman sachs 2024.csv"}

\* A cell as a statement fills the column of the name
SampleCell(column) ==
    LET col_lower == StrLower(column)
    IN IF Contains(col_lower, "date") THEN "01/15/2024"
       ELSE IF col_lower \in Range(AMOUNT_COLUMNS) \cup Range(DEBIT_COLUMNS)
                             \cup Range(CREDIT_COLUMNS) \cup Range(BALANCE_COLUMNS)
            THEN "45.99"
       ELSE "COFFEE SHOP"

\* The files whose columns a mapping is derived for: a statement of one row
\* under the header list of each profile, and files whose columns no profile
\* names
ColumnFiles ==
    {[columns |-> BANK_FORMATS[p].headers,
      rows |-> <<[c \in 1..Len(BANK_FORMATS[p].headers) |->
                    SampleCell(BANK_FORMATS[p].headers[c])]>>] : p \in 1..Len(BANK_FORMATS)}
    \cup {[columns |-> <<"When", "What", "Paid">>,
           rows |-> <<<<"2024-01-15", "COFFEE SHOP", "$4.50">>,
                      <<"2024-01-16", "GROCERY STORE", "(52.10)">>>>],
          [columns |-> <<"Date", "Payment", "Description">>,
           rows |-> <<<<"2024-01-15", "45.99", "COFFEE SHOP">>>>],
          [columns |-> <<"Date", "Deposit", "Paid", "Description">>,
           rows |-> <<<<"2024-01-15", "", "45.99", "COFFEE SHOP">>>>],
          [columns |-> <<"Date", "Debit", "Credit", "Description">>,
           rows |-> <<<<"2024-01-15", "45.99", "", "COFFEE SHOP">>,
                      <<"2024-01-16", "", "1200.00", "PAYROLL">>>>]}

\* The sequences of one to n elements of a set
RECURSIVE SeqsUpTo(_, _)
SeqsUpTo(elements, n) ==
    IF n = 0 THEN {<<>>}
    ELSE SeqsUpTo(elements, n - 1)
         \cup {Append(q, e) : q \in SeqsUpTo(elements, n - 1), e \in elements}

\* Rows under the columns Date, Description, Amount: three a statement holds,
\* rows whose date or amount is unreadable or missing, and an empty row
AmountRows ==
    {<<"2024-01-15", "COFFEE SHOP", "-4.50">>,
     <<"01/16/2024", "GROCERY STORE", "(52.10)">>,
     <<"17-Jan-2024", "PAYROLL", "$1,200.00">>,
     <<"pending", "COFFEE SHOP", "-4.50">>,
     <<"", "GROCERY STORE", "-52.10">>,
     <<"2024-01-18", "REFUND", "TBD">>,
     <<"2024-01-19", "REFUND", "">>,
     <<"", "", "">>}

\* Rows under the columns Date, Description, Debit, Credit
SplitRows ==
    {<<"2024-01-15", "COFFEE SHOP", "4.50", "">>,
     <<"2024-01-16", "PAYROLL", "", "1200.00">>,
     <<"2024-01-17", "ADJUSTMENT", "10.00", "2.50">>,
     <<"2024-01-18", "HOLD", "0.00", "0.00">>}

\* The files parsed: up to MaxFileRows rows under a single amount column or
\* under a debit and a credit column
ParseFiles ==
    {[columns |-> <<"Date", "Description", "Amount">>, rows |-> rows] :
        rows \in SeqsUpTo(AmountRows, MaxFileRows)}
    \cup {[columns |-> <<"Date", "Description", "Debit", "Credit">>, rows |-> rows] :
            rows \in SeqsUpTo(SplitRows, MaxFileRows) \ {<<>>}}

\* Rows added between detection runs: a monthly charge with a late third
\* charge, a large first purchase at a merchant and a second purchase there
FlagRows ==
    {Row(d, -15, "NETFLIX", NoText) : d \in {1, 31, 40}}
        \cup {Row(5, -500, "GROCERY", NoText), Row(6, -15, "GROCERY", NoText)}

\* A store of two monthly charges at each of two merchants, none marked
RaceStore ==
    <<NewTransaction(1, -15, "NETFLIX", NoText, NULL),
      NewTransaction(3, -50, "GYM", NoText, NULL),
      NewTransaction(31, -15, "NETFLIX", NoText, NULL),
      NewTransaction(33, -50, "GYM", NoText, NULL)>>

\* The threads that call detect_and_mark on the one detector of the service
Threads == {1, 2}

(***************************************************************************)
(* The operations.                                                         *)
(***************************************************************************)
PipelineState ==
    [transactions |-> transactions, embeddings |-> embeddings,
     categorization_log |-> categorization_log, method |-> method]

\* BudgetService.import_file(file_path, auto_categorize); file is the list of
\* transactions CSVParser.parse returns for the path (the same list every time)
ImportFile(file, auto_categorize, fail) ==
    LET total == Len(file)
        added == AddTransactions(transactions, file)
        added_ids == added[2]
        st0 == [PipelineState EXCEPT
                  !.transactions = added[1],
                  !.method = @ \o [i \in 1..Len(added_ids) |-> "none"]]
        outcomes == IF auto_categorize /\ added_ids # <<>>
                    THEN CategorizeAdded(st0, added_ids, fail, <<>>, 0)
                    ELSE {[st |-> st0, calls |-> <<>>, categorized |-> 0]}
    IN /\ fail = "none" \/ (auto_categorize /\ added_ids # <<>>)
       /\ \E o \in outcomes :
            /\ transactions' = o.st.transactions
            /\ embeddings' = o.st.embeddings
            /\ categorization_log' = o.st.categorization_log
            /\ method' = o.st.method
            /\ imported' = imported \cup Range(file)
            /\ ret' = [op |-> "import_file",
                       total_parsed |-> total, added |-> Len(added_ids),
                       duplicates |-> total - Len(added_ids),
                       categorized |-> o.categorized,
                       again |-> (Range(file) \subseteq imported),
                       count_before |-> Len(transactions),
                       calls |-> o.calls]
       /\ UNCHANGED <<next_group_id, running>>

\* SQLiteStore.add_transaction(date, amount, merchant, description, category_id)
StoreAddTransaction(row, category_id) ==
    LET added == AddTransaction(transactions, row.date, row.amount, row.merchant,
                                row.description, category_id)
    IN /\ transactions' = added[1]
       /\ method' = IF added[2] = NULL THEN method
                    ELSE Append(method, IF category_id = NULL THEN "none" ELSE "given")
       /\ ret' = [op |-> "add_transaction", row |-> row, id |-> added[2]]
       /\ UNCHANGED <<embeddings, categorization_log, next_group_id, imported, running>>

\* BudgetService.categorize_transaction(txn_id, category_name)
CategorizeTransaction(txn_id, category_name) ==
    LET cat == GetCategoryIdByName(category_name)
        exists == txn_id \in 1..Len(transactions)
    IN IF cat = NULL
       THEN /\ ret' = [op |-> "categorize_transaction", success |-> FALSE]
            /\ UNCHANGED <<transactions, embeddings, categorization_log, next_group_id,
                           imported, method, running>>
       ELSE /\ transactions' = UpdateTransactionCategory(transactions, txn_id, cat)
            /\ embeddings' =
                 IF exists
                 THEN AddEmbedding(embeddings, txn_id,
                        EmbedTransaction(transactions[txn_id].merchant,
                                         transactions[txn_id].description,
                                         transactions[txn_id].amount),
                        transactions[txn_id].merchant, category_name,
                        transactions[txn_id].amount)
                 ELSE embeddings
            /\ method' = SetMethod(method, txn_id, "manual")
            /\ ret' = [op |-> "categorize_transaction", success |-> TRUE]
            /\ UNCHANGED <<categorization_log, next_group_id, imported, running>>

\* RAGCategorizer.categorize_and_update(transaction) for a stored transaction.
\* index_before is the index as it stood before the first call of the run of
\* consecutive calls this call belongs to, later whether it is not the first.
CategorizeAndUpdateCall(txn_id, fail) ==
    \E o \in CategorizeAndUpdate(PipelineState, TxnDict(transactions, txn_id), fail) :
        /\ transactions' = o.st.transactions
        /\ embeddings' = o.st.embeddings
        /\ categorization_log' = o.st.categorization_log
        /\ method' = o.st.method
        /\ ret' = [op |-> "categorize_and_update", call |-> o.call,
                   collaborator_calls |-> o.calls,
                   index_before |-> IF ret.op = "categorize_and_update"
                                    THEN ret.index_before ELSE embeddings,
                   later |-> (ret.op = "categorize_and_update")]
        /\ UNCHANGED <<next_group_id, imported, running>>

\* RAGCategorizer.categorize(transaction), a query
CategorizeQuery(txn, fail) ==
    /\ \E c \in Categorize(embeddings, txn, fail) :
         ret' = [op |-> "categorize", fail |-> fail, raised |-> c.raised,
                 method |-> c.result.method, category_id |-> c.result.category_id,
                 category_name |-> c.result.category_name,
                 confidence |-> c.result.confidence,
                 labels |-> NeighbourLabels(c.result.similar_transactions),
                 collaborator_calls |-> c.calls]
    /\ UNCHANGED <<transactions, embeddings, categorization_log, next_group_id,
                   imported, method, running>>

\* A detect that takes a group id from the counter for every group it reports
RecurringDetectAllocating ==
    /\ \E order \in GroupOrders(transactions) :
         /\ ret' = [op |-> "recurring_detect", recurring |-> Detect(transactions, order),
                    raised |-> DetectRaises(transactions)]
         /\ next_group_id' = next_group_id + Len(ret'.recurring)
    /\ UNCHANGED <<transactions, embeddings, categorization_log, imported, method, running>>

\* RecurringDetector.detect(), a query
RecurringDetect ==
    /\ \E order \in GroupOrders(transactions) :
         ret' = [op |-> "recurring_detect", recurring |-> Detect(transactions, order),
                 raised |-> DetectRaises(transactions)]
    /\ UNCHANGED <<transactions, embeddings, categorization_log, next_group_id,
                   imported, method, running>>

\* RecurringDetector.detect_and_mark()
RecurringDetectAndMark ==
    /\ \E order \in GroupOrders(transactions) :
         LET recurring == Detect(transactions, order)
             marked == MarkRecurring(transactions, recurring, next_group_id)
         IN /\ transactions' = marked.transactions
            /\ next_group_id' = marked.next_group_id
            /\ ret' = [op |-> "recurring_detect_and_mark", recurring |-> recurring,
                       group_ids |-> marked.ids, first_id |-> next_group_id]
    /\ UNCHANGED <<embeddings, categorization_log, imported, method, running>>

\* AnomalyDetector.detect(), a query
AnomalyDetect ==
    /\ ret' = [op |-> "anomaly_detect", anomalies |-> DetectAnomalies(transactions),
               raised |-> DetectAnomaliesRaises(transactions)]
    /\ UNCHANGED <<transactions, embeddings, categorization_log, next_group_id,
                   imported, method, running>>

\* AnomalyDetector.detect_and_mark()
AnomalyDetectAndMark ==
    LET Marked(anomalies) ==
            /\ transactions' = MarkAnomalies(transactions, anomalies)
            /\ ret' = [op |-> "anomaly_detect_and_mark", anomalies |-> anomalies,
                       again |-> (ret.op = "anomaly_detect_and_mark"),
                       before |-> transactions,
                       first |-> IF ret.op = "anomaly_detect_and_mark" THEN ret.first
                                 ELSE anomalies]
    IN /\ Marked(DetectAnomalies(transactions))
       /\ UNCHANGED <<embeddings, categorization_log, next_group_id, imported, method,
                      running>>

\* CSVParser._normalize_amount(amount_val)
NormalizeAmountCall(amount_val) ==
    /\ ret' = [op |-> "normalize_amount", amount_val |-> amount_val,
               amount |-> NormalizeAmount(amount_val)]
    /\ UNCHANGED <<transactions, embeddings, categorization_log, next_group_id,
                   imported, method, running>>

\* CSVParser.parse(file_path)
ParseFile(file) ==
    /\ ret' = [op |-> "parse", file |-> file, transactions |-> Parse(file)]
    /\ UNCHANGED <<transactions, embeddings, categorization_log, next_group_id,
                   imported, method, running>>

\* CSVParser.detect_format(file_path, filename) on a file of the header row
DetectFormatCall(columns, filename) ==
    /\ ret' = [op |-> "detect_format", columns |-> columns, filename |-> filename,
               format_name |-> BANK_FORMATS[DetectFormat(columns, filename)].id]
    /\ UNCHANGED <<transactions, embeddings, categorization_log, next_group_id,
                   imported, method, running>>

\* CSVParser._smart_detect_columns(df, format_info) on the cleaned DataFrame of
\* the file, as analyze_file calls it; detected is the profile detect_format
\* returns for the file
SmartDetectColumnsCall(file, p) ==
    /\ ret' = [op |-> "smart_detect_columns", file |-> file, format_name |-> BANK_FORMATS[p].id,
               detected |-> BANK_FORMATS[DetectFormat(file.columns, "")].id,
               mapping |-> SmartDetectColumns(CleanDataframe(file), BANK_FORMATS[p])]
    /\ UNCHANGED <<transactions, embeddings, categorization_log, next_group_id,
                   imported, method, running>>

\* The statistics import_file returns for the transactions parse returned,
\* without auto-categorization
ImportResult(txns, parsed) ==
    LET Counts(total, added_count) ==
            [total_parsed |-> total, added |-> added_count,
             duplicates |-> total - added_count, categorized |-> 0]
    IN Counts(Len(parsed), Len(AddTransactions(txns, parsed)[2]))

\* BudgetService.import_file(file_path, auto_categorize=False), file being what
\* the parser reads from the path
ImportPath(file) ==
    LET Added(added, result) ==
            /\ transactions' = added[1]
            /\ method' = method \o [i \in 1..Len(added[2]) |-> "none"]
            /\ ret' = [op |-> "import_path", file |-> file, before |-> transactions,
                       result |-> result]
        Parsed(parsed) ==
            /\ Added(AddTransactions(transactions, parsed), ImportResult(transactions, parsed))
            /\ imported' = imported \cup Range(parsed)
    IN /\ Parsed(Parse(file))
       /\ UNCHANGED <<embeddings, categorization_log, next_group_id, running>>

\* VectorStore.update_category(transaction_id, new_category) runs in three steps
\* on thread 1.  First step: existing = self.get_embedding(transaction_id); the
\* call returns when there is none.
UpdateCategoryGet(transaction_id, new_category) ==
    /\ running = <<>>
    /\ IF GetEmbedding(embeddings, transaction_id) = {}
       THEN /\ ret' = [op |-> "update_category", transaction_id |-> transaction_id,
                       new_category |-> new_category, before |-> embeddings,
                       outcome |-> "absent"]
            /\ UNCHANGED running
       ELSE /\ \E existing \in GetEmbedding(embeddings, transaction_id) :
                 running' = <<[op |-> "update_category", pc |-> "delete",
                               transaction_id |-> transaction_id,
                               new_category |-> new_category, existing |-> existing,
                               before |-> embeddings]>>
            /\ UNCHANGED ret
    /\ UNCHANGED <<transactions, embeddings, categorization_log, next_group_id,
                   imported, method>>

\* Second step of update_category: self.delete_embedding(transaction_id)
UpdateCategoryDelete ==
    /\ running # <<>>
    /\ running[1].op = "update_category"
    /\ running[1].pc = "delete"
    /\ embeddings' = DeleteEmbedding(embeddings, running[1].transaction_id)
    /\ running' = [running EXCEPT ![1].pc = "add"]
    /\ UNCHANGED <<transactions, categorization_log, next_group_id, imported, method, ret>>

\* Third step of update_category: self.add_embedding(...) with the vector,
\* merchant and amount of the row read and the new category
UpdateCategoryAdd ==
    /\ running # <<>>
    /\ running[1].op = "update_category"
    /\ running[1].pc = "add"
    /\ embeddings' = AddEmbedding(embeddings, running[1].transaction_id,
                                  running[1].existing.vector, running[1].existing.merchant,
                                  running[1].new_category, running[1].existing.amount)
    /\ running' = <<>>
    /\ ret' = [op |-> "update_category", transaction_id |-> running[1].transaction_id,
               new_category |-> running[1].new_category, before |-> running[1].before,
               outcome |-> "done"]
    /\ UNCHANGED <<transactions, categorization_log, next_group_id, imported, method>>

\* The process is interrupted while update_category is in progress: the call
\* never resumes, the index stays as its last completed step left it
UpdateCategoryInterrupted ==
    /\ running # <<>>
    /\ running[1].op = "update_category"
    /\ running' = <<>>
    /\ ret' = [op |-> "update_category", transaction_id |-> running[1].transaction_id,
               new_category |-> running[1].new_category, before |-> running[1].before,
               outcome |-> IF running[1].pc = "delete" THEN "interrupted before delete"
                           ELSE "interrupted before add"]
    /\ UNCHANGED <<transactions, embeddings, categorization_log, next_group_id,
                   imported, method>>

\* A thread that has not called detect_and_mark yet
NotStarted ==
    [op |-> "detect_and_mark", pc |-> "call", recurring |-> <<>>, g |-> 0, m |-> 0,
     group_id |-> NULL, loaded |-> NULL, overlapped |-> FALSE]

\* A thread is inside detect_and_mark
InProgress(t) == running[t].pc \notin {"call", "done"}

\* An increment that stores the value loaded
NextGroupIdSame(loaded) == loaded

\* self._next_group_id += 1: the value stored for the value loaded
NextGroupId(loaded) == loaded + 1

\* RecurringDetector.detect_and_mark on thread t, step by step.  First step:
\* recurring = self.detect()
DetectAndMarkDetect(t) ==
    /\ running[t].pc = "call"
    /\ \E order \in GroupOrders(transactions) :
         LET Detected(recurring) ==
                 running' = [u \in Threads |->
                     IF u = t
                     THEN [running[t] EXCEPT
                             !.recurring = recurring,
                             !.pc = IF recurring = <<>> THEN "done" ELSE "read",
                             !.g = 1,
                             !.overlapped = \E v \in Threads \ {t} : InProgress(v)]
                     ELSE [running[u] EXCEPT !.overlapped = @ \/ InProgress(u)]]
         IN Detected(Detect(transactions, order))
    /\ UNCHANGED <<transactions, embeddings, categorization_log, next_group_id,
                   imported, method, ret>>

\* group_id = self._next_group_id
DetectAndMarkReadGroupId(t) ==
    /\ running[t].pc = "read"
    /\ running' = [running EXCEPT ![t].group_id = next_group_id, ![t].pc = "load"]
    /\ UNCHANGED <<transactions, embeddings, categorization_log, next_group_id,
                   imported, method, ret>>

\* self._next_group_id += 1, the load of the attribute
DetectAndMarkLoad(t) ==
    /\ running[t].pc = "load"
    /\ running' = [running EXCEPT ![t].loaded = next_group_id, ![t].pc = "store"]
    /\ UNCHANGED <<transactions, embeddings, categorization_log, next_group_id,
                   imported, method, ret>>

\* self._next_group_id += 1, the store of the sum
DetectAndMarkStore(t) ==
    /\ running[t].pc = "store"
    /\ next_group_id' = NextGroupId(running[t].loaded)
    /\ running' = [running EXCEPT ![t].pc = "mark", ![t].m = 1]
    /\ UNCHANGED <<transactions, embeddings, categorization_log, imported, method, ret>>

\* self.store.mark_transaction_recurring(txn_id, group_id) for the next member
\* of the group; after the last member the loop goes on to the next group, after
\* the last group the call returns
DetectAndMarkMark(t) ==
    /\ running[t].pc = "mark"
    /\ LET Step(group, g, m) ==
               /\ transactions' = MarkTransactionRecurring(transactions,
                                       group.transaction_ids[m], running[t].group_id)
               /\ running' = [running EXCEPT
                     ![t].m = IF m < Len(group.transaction_ids) THEN m + 1 ELSE 0,
                     ![t].g = IF m < Len(group.transaction_ids) THEN g ELSE g + 1,
                     ![t].pc = IF m < Len(group.transaction_ids) THEN "mark"
                               ELSE IF g < Len(running[t].recurring) THEN "read"
                               ELSE "done"]
       IN Step(running[t].recurring[running[t].g], running[t].g, running[t].m)
    /\ UNCHANGED <<embeddings, categorization_log, next_group_id, imported, method, ret>>

(***************************************************************************)
(* The pipeline: a fresh database and an empty index; statements are       *)
(* imported, and the newest transaction (or an id that is not stored) is   *)
(* categorized by hand while the index holds at most MaxManual entries     *)
(* more than there are transactions.                                       *)
(***************************************************************************)
Init ==
    /\ transactions = <<>>
    /\ embeddings = <<>>
    /\ categorization_log = <<>>
    /\ next_group_id = 1
    /\ imported = {}
    /\ method = <<>>
    /\ running = <<>>
    /\ ret = [op |-> "init"]

Next ==
    \/ \E file \in StatementFiles(transactions) :
            /\ Len(AddTransactions(transactions, file)[1]) <= MaxTransactions
            /\ ImportFile(file, FALSE, "none")
    \/ \E file \in StatementFiles(transactions), fail \in FailPoints :
            /\ Len(AddTransactions(transactions, file)[1]) <= MaxTransactions
            /\ ImportFile(file, TRUE, fail)
    \/ \E id \in {Len(transactions), Len(transactions) + 1}, name \in ManualNames :
            /\ CategorizeTransaction(id, name)
            /\ Len(embeddings') <= Len(transactions) + MaxManual

Spec == Init /\ [][Next]_vars

(***************************************************************************)
(* The store: rows are added one by one and by importing files.            *)
(***************************************************************************)
NextStore ==
    \/ \E row \in StoreRows :
            StoreAddTransaction(row, NULL) /\ Len(transactions') <= MaxStored
    \/ \E file \in StoreFiles, auto_categorize \in BOOLEAN :
            /\ Len(AddTransactions(transactions, file)[1]) <= MaxStored
            /\ ImportFile(file, auto_categorize, "none")

SpecStore == Init /\ [][NextStore]_vars

(***************************************************************************)
(* The categorizer queried once over an index built earlier.               *)
(***************************************************************************)
InitCategorize ==
    /\ transactions = <<>>
    /\ embeddings \in Indexes
    /\ categorization_log = <<>>
    /\ next_group_id = 1
    /\ imported = {}
    /\ method = <<>>
    /\ running = <<>>
    /\ ret = [op |-> "init"]

NextCategorize ==
    /\ ret.op = "init"
    /\ \E fail \in {"none", "embed", "search"} : CategorizeQuery(QueryTxn, fail)

SpecCategorize == InitCategorize /\ [][NextCategorize]_vars

(***************************************************************************)
(* The recurring detector queried over one group of charges.               *)
(***************************************************************************)
InitIntervals ==
    /\ transactions \in GapStores
    /\ embeddings = <<>>
    /\ categorization_log = <<>>
    /\ next_group_id = 1
    /\ imported = {}
    /\ method = <<>>
    /\ running = <<>>
    /\ ret = [op |-> "init"]

NextIntervals == RecurringDetect

SpecIntervals == InitIntervals /\ [][NextIntervals]_vars

(***************************************************************************)
(* The recurring detector marking a store that grows.                      *)
(***************************************************************************)
NextMark ==
    \/ \E row \in DetectRows :
            StoreAddTransaction(row, NULL) /\ Len(transactions') <= MaxMarked
    \/ RecurringDetectAndMark /\ next_group_id' <= MaxGroupId + 1

SpecMark == Init /\ [][NextMark]_vars

(***************************************************************************)
(* The anomaly detector queried over the transactions of one category.     *)
(***************************************************************************)
InitAnomaly ==
    /\ transactions \in AnomalyStores
    /\ embeddings = <<>>
    /\ categorization_log = <<>>
    /\ next_group_id = 1
    /\ imported = {}
    /\ method = <<>>
    /\ running = <<>>
    /\ ret = [op |-> "init"]

NextAnomaly == AnomalyDetect

SpecAnomaly == InitAnomaly /\ [][NextAnomaly]_vars

(***************************************************************************)
(* Both detectors run over a store of several merchants.                   *)
(***************************************************************************)
InitDetect ==
    /\ transactions \in DetectorStores
    /\ embeddings = <<>>
    /\ categorization_log = <<>>
    /\ next_group_id = 1
    /\ imported = {}
    /\ method = <<>>
    /\ running = <<>>
    /\ ret = [op |-> "init"]

NextDetect ==
    \/ AnomalyDetect
    \/ AnomalyDetectAndMark
    \/ RecurringDetect

SpecDetect == InitDetect /\ [][NextDetect]_vars

(***************************************************************************)
(* The operations that update stored transactions: new transactions are    *)
(* categorized one after another over an index built earlier, corrected by *)
(* hand once each, and marked by both detectors.                           *)
(***************************************************************************)
InitUpdate ==
    /\ transactions = UpdateStore
    /\ embeddings \in UpdateIndexes
    /\ categorization_log = <<>>
    /\ next_group_id = 1
    /\ imported = {}
    /\ method = [i \in 1..Len(UpdateStore) |-> "none"]
    /\ running = <<>>
    /\ ret = [op |-> "init"]

NextUpdate ==
    \/ \E id \in 1..Len(transactions), fail \in FailPoints :
            method[id] = "none" /\ CategorizeAndUpdateCall(id, fail)
    \/ \E id \in 1..Len(transactions), name \in ManualNames :
            method[id] \in {"auto", "needs_review"} /\ CategorizeTransaction(id, name)
    \/ (\A i \in 1..Len(transactions) : transactions[i].is_recurring = 0)
            /\ RecurringDetectAndMark
    \/ (\A i \in 1..Len(transactions) : transactions[i].is_anomaly = 0)
            /\ AnomalyDetectAndMark

SpecUpdate == InitUpdate /\ [][NextUpdate]_vars

(***************************************************************************)
(* Properties of RAGCategorizer.categorize.                                *)
(***************************************************************************)
\* The number of times a label occurs among the labels of the neighbours
Votes(labels, label) == Cardinality({i \in 1..Len(labels) : labels[i] = label})

\* The labels no other label outvotes
Winners(labels) ==
    {w \in Range(labels) : \A l \in Range(labels) : Votes(labels, l) <= Votes(labels, w)}

\* At least 3 neighbours, the most frequent label at least 3 times and with a
\* share of at least 0.85 of the neighbours
Agreement(labels, w) ==
    /\ Len(labels) >= 3
    /\ w \in Winners(labels)
    /\ Votes(labels, w) >= 3
    /\ 100 * Votes(labels, w) >= 85 * Len(labels)

\* The label is the name of a category of the categorizer, ignoring case
NamesCategory(label) == \E c \in CategoryIds : Lower(CategoryNames[c]) = Lower(label)

Returned == ret.op = "categorize" /\ ~ret.raised

IsNeedsReview ==
    /\ ret.method = "needs_review"
    /\ ret.category_id = NULL
    /\ ret.category_name = NoText
    /\ ret.confidence = <<0, 1>>

IsAutoFor(w) ==
    /\ ret.method = "auto"
    /\ ret.category_name = w
    /\ ret.category_id \in CategoryIds
    /\ Lower(CategoryNames[ret.category_id]) = Lower(w)
    /\ ret.confidence = <<Votes(ret.labels, w), Len(ret.labels)>>
    /\ 100 * ret.confidence[1] >= 85 * ret.confidence[2]

\* C1, as stated: categorize returns method "auto" if and only if at least 3
\* neighbours were retrieved, the most frequent label occurs at least 3 times and
\* its share is at least 0.85; the category is then that label and the confidence
\* the share; in every other case the result is needs_review, category none,
\* confidence 0.
C1_AutoIffAgreement ==
    Returned =>
        \/ \E w \in Range(ret.labels) : Agreement(ret.labels, w) /\ IsAutoFor(w)
        \/ (~\E w \in Range(ret.labels) : Agreement(ret.labels, w)) /\ IsNeedsReview

\* C1, amended: categorize returns method "auto" if and only if at least 3
\* neighbours were retrieved, the most frequent label occurs at least 3 times, its
\* share is at least 0.85 and the label names a category the categorizer knows
\* (ignoring case); the category is then that one and the confidence the share;
\* in every other case the result is needs_review, category none, confidence 0.
C1_AutoIffAgreementOnKnownCategory ==
    Returned =>
        \/ \E w \in Range(ret.labels) :
              Agreement(ret.labels, w) /\ NamesCategory(w) /\ IsAutoFor(w)
        \/ /\ ~\E w \in Range(ret.labels) : Agreement(ret.labels, w) /\ NamesCategory(w)
           /\ IsNeedsReview

\* An auto result over five neighbours cut out of an index of six
C1_Witness ==
    /\ Returned
    /\ ret.method = "auto"
    /\ Len(ret.labels) = 5
    /\ Len(embeddings) = 6

\* C5, first half: when the embedding or the search fails during categorize, the
\* call returns a needs_review result with category none instead of raising.
C5_FailureDegradesToNeedsReview ==
    (ret.op = "categorize" /\ ret.fail \in {"embed", "search"}) =>
        ~ret.raised /\ ret.method = "needs_review" /\ ret.category_id = NULL

(***************************************************************************)
(* Properties of the categorization pipeline.                              *)
(***************************************************************************)
\* The index holds an entry for the transaction
Indexed(txn_id) == \E e \in 1..Len(embeddings) : embeddings[e].transaction_id = txn_id

\* The calls of categorize_and_update the last import made in which no
\* collaborator failed: categorize returned and the second embedding was computed
CompletedCalls ==
    IF ret.op = "import_file"
    THEN {ret.calls[k] : k \in {j \in 1..Len(ret.calls) : ret.calls[j].raised \in {"no", "log"}}}
    ELSE {}

\* C2: every entry of the similarity index carries the category resolved for its
\* transaction by auto- or manual categorization, and a transaction whose result
\* was needs_review has no entry under any label.
C2_IndexCarriesResolvedCategories ==
    /\ \A e \in 1..Len(embeddings) :
          LET txn == transactions[embeddings[e].transaction_id]
          IN /\ txn.category_id # NULL
             /\ \E c \in CategoryIds : Lower(CategoryNames[c]) = Lower(embeddings[e].category)
    /\ \A call \in CompletedCalls : call.method = "needs_review" => ~Indexed(call.txn_id)

\* The votes of needs_review outcomes add up: the last import auto-categorized a
\* transaction whose neighbours were all left for review
C2_ReviewVotesAutoCategorize ==
    /\ ret.op = "import_file"
    /\ \E k \in 1..Len(ret.calls) :
          /\ ret.calls[k].method = "auto"
          /\ \A i \in 1..Len(ret.calls[k].similar_ids) :
                method[ret.calls[k].similar_ids[i]] = "needs_review"

\* C6: every call of categorize_and_update, auto or needs_review, completes with
\* the category persisted on the transaction, an entry for the transaction in the
\* index, and a log entry recording category, confidence and neighbour ids.
C6_AllThreeEffects ==
    \A call \in CompletedCalls :
        /\ call.raised = "no"
        /\ transactions[call.txn_id].category_id = call.category_id
        /\ Indexed(call.txn_id)
        /\ \E l \in 1..Len(categorization_log) :
              /\ categorization_log[l].transaction_id = call.txn_id
              /\ categorization_log[l].category_id = call.category_id
              /\ categorization_log[l].confidence = call.confidence
              /\ categorization_log[l].similar_transaction_ids = call.similar_ids

\* What holds of every step whatever the transitions of the category state: the
\* transactions an import adds end the import uncategorized, auto-categorized or
\* in review; no categorized transaction loses its category; import categorizes
\* no transaction that already has a category
StepKeepsCategories ==
    /\ Len(method') >= Len(method)
    /\ \A i \in (Len(method) + 1)..Len(method') :
          ret'.op = "import_file" /\ method'[i] \in {"none", "auto", "needs_review"}
    /\ \A i \in 1..Len(transactions) :
          transactions[i].category_id # NULL => transactions'[i].category_id # NULL
    /\ ret'.op = "import_file" =>
          \A k \in 1..Len(ret'.calls) :
              ret'.calls[k].txn_id \in 1..Len(transactions) =>
                  transactions[ret'.calls[k].txn_id].category_id = NULL

\* C7, as stated: the only transitions of a transaction's category state are
\* Uncategorized -> Auto-categorized or Needs-review by import, and Needs-review
\* -> Manually-categorized by categorize_transaction; no operation returns a
\* categorized transaction to the uncategorized state, and import never
\* categorizes a transaction that already has a category.
C7_StatedTransitionsOnly ==
    [][ /\ StepKeepsCategories
        /\ \A i \in 1..Len(method) :
              \/ method'[i] = method[i]
              \/ /\ method[i] = "none"
                 /\ method'[i] \in {"auto", "needs_review"}
                 /\ ret'.op = "import_file"
              \/ /\ method[i] = "needs_review"
                 /\ method'[i] = "manual"
                 /\ ret'.op = "categorize_transaction" ]_vars

\* C7, amended: the only transitions are Uncategorized -> Auto-categorized or
\* Needs-review by import, and from any state to Manually-categorized by
\* categorize_transaction; no operation returns a categorized transaction to the
\* uncategorized state, and import never categorizes a transaction that already
\* has a category.
C7_TransitionsWithManualFromAnyState ==
    [][ /\ StepKeepsCategories
        /\ \A i \in 1..Len(method) :
              \/ method'[i] = method[i]
              \/ /\ method[i] = "none"
                 /\ method'[i] \in {"auto", "needs_review"}
                 /\ ret'.op = "import_file"
              \/ /\ method'[i] = "manual"
                 /\ ret'.op = "categorize_transaction" ]_vars

\* A transaction that import auto-categorized (its log entry exists) has been
\* categorized by hand
C7_Witness ==
    /\ ret.op = "categorize_transaction"
    /\ ret.success
    /\ \E i \in 1..Len(method) :
          /\ method[i] = "manual"
          /\ transactions[i].category_id # NULL
          /\ \E l \in 1..Len(categorization_log) : categorization_log[l].transaction_id = i

(***************************************************************************)
(* Properties of the store.                                                *)
(***************************************************************************)
SameTriple(a, b) == a.date = b.date /\ a.amount = b.amount /\ a.merchant = b.merchant

\* C3: no two stored transactions share a (date, amount, merchant) triple, and an
\* add_transaction whose triple is already stored returns None and leaves the
\* store unchanged, whatever its description.
C3_NoDuplicateTriples ==
    [][ /\ \A i, j \in 1..Len(transactions') :
              SameTriple(transactions'[i], transactions'[j]) => i = j
        /\ ( /\ ret'.op = "add_transaction"
             /\ \E i \in 1..Len(transactions) : SameTriple(transactions[i], ret'.row) )
           => (ret'.id = NULL /\ transactions' = transactions) ]_vars

\* An add was turned down whose row differs from the stored one in the description
C3_Witness ==
    /\ ret.op = "add_transaction"
    /\ ret.id = NULL
    /\ \E i \in 1..Len(transactions) :
          /\ SameTriple(transactions[i], ret.row)
          /\ transactions[i].description # ret.row.description

\* C4: importing a file a second time (every row of the file was in a file
\* imported before) leaves the number of stored transactions as it was and
\* reports added = 0 and duplicates = total_parsed.
C4_ImportIdempotent ==
    (ret.op = "import_file" /\ ret.again) =>
        /\ Len(transactions) = ret.count_before
        /\ ret.added = 0
        /\ ret.duplicates = ret.total_parsed

\* A file of two rows was imported again
C4_Witness ==
    /\ ret.op = "import_file"
    /\ ret.again
    /\ ret.total_parsed = 2
    /\ ret.duplicates = 2
    /\ Len(transactions) = 2

(***************************************************************************)
(* Properties of the recurring detector.                                   *)
(***************************************************************************)
\* The gaps in days between the consecutive dates of the stored charges (the
\* store of this specification holds one (merchant, amount) group)
StoredGaps ==
    LET dates == Sorted([i \in 1..Len(transactions) |-> transactions[i].date])
    IN [i \in 1..(Len(dates) - 1) |-> dates[i + 1] - dates[i]]

\* |mean gap - c| <= tol and stdev of the gaps <= tol, with tol = 3 days and 7
\* days for c = 365; the sample deviation, 0 for a single gap
FitsInterval(gaps, c) ==
    LET n == Len(gaps)
        tol == IF c = 365 THEN 7 ELSE 3
        total == SumSeq(gaps)
        squares == SumSeq([i \in 1..n |-> gaps[i] * gaps[i]])
    IN /\ n >= 1
       /\ total - c * n <= tol * n
       /\ c * n - total <= tol * n
       /\ n > 1 => n * squares - total * total <= tol * tol * n * (n - 1)

CanonicalIntervals == {7, 14, 28, 30, 31, 90, 365}

IntervalLabel(c) ==
    CASE c = 7 -> "weekly"
      [] c = 14 -> "biweekly"
      [] c \in {28, 30, 31} -> "monthly"
      [] c = 90 -> "quarterly"
      [] c = 365 -> "yearly"

\* C8: detect reports a group if and only if it has at least 2 transactions and
\* some canonical interval c fits (|mean gap - c| <= tol and stdev <= tol, tol 3
\* days, 7 for 365); the interval_type is the label of the first such c; gaps of
\* 30/31/28 days are monthly, a single occurrence and two transactions 45 days
\* apart are not reported.
C8_ReportedIffCanonicalInterval ==
    ret.op = "recurring_detect" =>
        LET gaps == StoredGaps
            fits == {c \in CanonicalIntervals : FitsInterval(gaps, c)}
            first == CHOOSE c \in fits : \A d \in fits : c <= d
        IN /\ IF Len(transactions) >= 2 /\ fits # {}
              THEN /\ Len(ret.recurring) = 1
                   /\ ret.recurring[1].interval_type = IntervalLabel(first)
                   /\ ret.recurring[1].count = Len(transactions)
              ELSE ret.recurring = <<>>
           /\ gaps \in {<<30, 31, 28>>, <<28, 30, 31>>, <<31, 28, 30>>} =>
                 Len(ret.recurring) = 1 /\ ret.recurring[1].interval_type = "monthly"
           /\ gaps \in {<<>>, <<45>>} => ret.recurring = <<>>

\* Four charges 30, 31 and 28 days apart were reported as monthly
C8_Witness ==
    /\ ret.op = "recurring_detect"
    /\ StoredGaps = <<30, 31, 28>>
    /\ Len(ret.recurring) = 1
    /\ ret.recurring[1].interval_type = "monthly"

\* C9: after detect_and_mark every member of every returned group has
\* is_recurring = 1 and the group id of its group, and the groups of the run
\* received distinct, consecutively assigned ids.
C9_MembersMarkedWithGroupId ==
    ret.op = "recurring_detect_and_mark" =>
        /\ Len(ret.group_ids) = Len(ret.recurring)
        /\ \A g \in 1..Len(ret.recurring) :
              /\ ret.group_ids[g] = ret.first_id + g - 1
              /\ \A h \in 1..Len(ret.recurring) : ret.group_ids[g] = ret.group_ids[h] => g = h
              /\ \A m \in 1..Len(ret.recurring[g].transaction_ids) :
                    LET txn == transactions[ret.recurring[g].transaction_ids[m]]
                    IN /\ txn.is_recurring = 1
                       /\ txn.recurring_group_id = ret.group_ids[g]

\* A run that returned two groups
C9_Witness ==
    /\ ret.op = "recurring_detect_and_mark"
    /\ Len(ret.recurring) = 2
    /\ \A g \in 1..2 : Len(ret.recurring[g].transaction_ids) >= 2

(***************************************************************************)
(* Properties of the anomaly detector.                                     *)
(***************************************************************************)
Magnitude(x) == IF x < 0 THEN -x ELSE x

\* The sorted absolute amounts of the transactions of a category
SortedMagnitudes(category_id) ==
    LET InCategory(t) == t.category_id = category_id
        ids == SelectIdx(transactions, InCategory, 1)
    IN Sorted([i \in 1..Len(ids) |-> Magnitude(transactions[ids[i]].amount)])

\* |amount| lies outside the fences of its category: Q1 and Q3 at positions
\* floor(n/4) and floor(3n/4) (counted from 0) of the sorted absolute amounts,
\* fences Q1 - 1.5*IQR and Q3 + 1.5*IQR when IQR > 0, Q1*(1 - 1.5) and
\* Q3*(1 + 1.5) when IQR = 0, no fences when Q1 = Q3 = 0.  Twice the amount is
\* compared with twice the fence.
OutsideFences(txn) ==
    LET sorted == SortedMagnitudes(txn.category_id)
        n == Len(sorted)
        Q1 == sorted[(n \div 4) + 1]
        Q3 == sorted[((3 * n) \div 4) + 1]
        IQR == Q3 - Q1
        a == Magnitude(txn.amount)
    IN /\ ~(Q1 = 0 /\ Q3 = 0)
       /\ IF IQR > 0
          THEN 2 * a > 2 * Q3 + 3 * IQR \/ 2 * a < 2 * Q1 - 3 * IQR
          ELSE 2 * a > 5 * Q3 \/ 2 * a < -Q1

CategoryOutlierReasons == {"exceeds category normal range", "below category normal range"}

\* The transaction is in the result with a category-outlier reason
FlaggedAsOutlier(txn_id) ==
    \E k \in 1..Len(ret.anomalies) :
        /\ ret.anomalies[k].transaction_id = txn_id
        /\ \E j \in 1..Len(ret.anomalies[k].reason) :
              ret.anomalies[k].reason[j] \in CategoryOutlierReasons

AllCategorized == \A i \in 1..Len(transactions) : transactions[i].category_id # NULL

MagnitudesWithin(low, high) ==
    \A i \in 1..Len(transactions) :
        Magnitude(transactions[i].amount) >= low /\ Magnitude(transactions[i].amount) <= high

\* The category-outlier reason is given exactly to the categorized transactions
\* whose |amount| lies outside the fences of their category
OutlierIffOutsideFences ==
    ret.op = "anomaly_detect" =>
        \A i \in 1..Len(transactions) :
            FlaggedAsOutlier(i) <=>
                (transactions[i].category_id # NULL /\ OutsideFences(transactions[i]))

\* Four amounts near 50 and a fifth of 500: the fifth is flagged
FifthOf500Flagged ==
    ( /\ ret.op = "anomaly_detect"
      /\ Len(transactions) = 5
      /\ AllCategorized
      /\ \E i \in 1..5 :
            /\ Magnitude(transactions[i].amount) = 500
            /\ \A j \in (1..5) \ {i} :
                  Magnitude(transactions[j].amount) >= 48 /\ Magnitude(transactions[j].amount) <= 55 )
    => \A i \in 1..5 : Magnitude(transactions[i].amount) = 500 => FlaggedAsOutlier(i)

\* C10, as stated: the category-outlier reason is given if and only if |amount|
\* lies outside the fences of the category; hence four amounts near 50 plus a
\* fifth of 500 flag the fifth, and five amounts within 48-55 flag none.
C10_OutlierIffOutsideFencesWithExamples ==
    /\ OutlierIffOutsideFences
    /\ FifthOf500Flagged
    /\ (ret.op = "anomaly_detect" /\ Len(transactions) = 5 /\ AllCategorized
            /\ MagnitudesWithin(48, 55))
          => ret.anomalies = <<>>

\* C10, amended: the category-outlier reason is given if and only if |amount|
\* lies outside the fences of the category; hence four amounts near 50 plus a
\* fifth of 500 flag the fifth, five equal amounts flag none, and of the five
\* amounts 49, 49, 49, 50, 55 the 55 is flagged (upper fence 51.5).
C10_OutlierIffOutsideFences ==
    /\ OutlierIffOutsideFences
    /\ FifthOf500Flagged
    /\ (ret.op = "anomaly_detect" /\ Len(transactions) = 5 /\ AllCategorized
            /\ \E a \in 48..55 : MagnitudesWithin(a, a))
          => ret.anomalies = <<>>
    /\ (ret.op = "anomaly_detect" /\ AllCategorized
            /\ SortedMagnitudes(2) = <<49, 49, 49, 50, 55>>)
          => \A i \in 1..5 :
                FlaggedAsOutlier(i) <=> Magnitude(transactions[i].amount) = 55

\* The fifth amount of 500 was flagged as exceeding the range of its category
C10_Witness ==
    /\ ret.op = "anomaly_detect"
    /\ Len(transactions) = 5
    /\ AllCategorized
    /\ Magnitude(transactions[5].amount) = 500
    /\ \A j \in 1..4 : Magnitude(transactions[j].amount) \in 48..55
    /\ FlaggedAsOutlier(5)

(***************************************************************************)
(* Claims on both detectors (SpecDetect).                                  *)
(***************************************************************************)
\* The value at rank k (from 1) of the values in ascending order
AtRank(values, k) ==
    CHOOSE v \in Range(values) :
        /\ Cardinality({i \in 1..Len(values) : values[i] < v}) < k
        /\ Cardinality({i \in 1..Len(values) : values[i] <= v}) >= k

\* Twice the median of |amount| over all stored transactions: the middle value,
\* or the sum of the two middle values of an even number of them
TwiceMedianMagnitude ==
    LET values == [i \in 1..Len(transactions) |-> Magnitude(transactions[i].amount)]
        n == Len(values)
    IN AtRank(values, (n + 1) \div 2) + AtRank(values, (n \div 2) + 1)

\* The transaction is in the result of detect with the new-merchant reason
FlaggedAsNewMerchant(txn_id) ==
    \E k \in 1..Len(ret.anomalies) :
        /\ ret.anomalies[k].transaction_id = txn_id
        /\ \E j \in 1..Len(ret.anomalies[k].reason) :
              ret.anomalies[k].reason[j] = "new merchant with high amount"

\* The number of stored transactions of the merchant
MerchantCount(merchant) ==
    Cardinality({i \in 1..Len(transactions) : transactions[i].merchant = merchant})

\* C11: detect gives a transaction the new-merchant reason if and only if its
\* merchant has exactly one transaction in the store, the median M of |amount|
\* over all transactions is > 0 and the transaction's |amount| > 3*M; a
\* transaction of a merchant with two or more transactions never gets it.
C11_NewMerchantIffSingleAndHigh ==
    ret.op = "anomaly_detect" =>
        \A i \in 1..Len(transactions) :
            /\ FlaggedAsNewMerchant(i) <=>
                  ( /\ MerchantCount(transactions[i].merchant) = 1
                    /\ TwiceMedianMagnitude > 0
                    /\ 2 * Magnitude(transactions[i].amount) > 3 * TwiceMedianMagnitude )
            /\ MerchantCount(transactions[i].merchant) >= 2 => ~FlaggedAsNewMerchant(i)

\* Of three transactions the only one of its merchant, of an amount above three
\* times the median, got the new-merchant reason, beside a merchant of two
C11_Witness ==
    /\ ret.op = "anomaly_detect"
    /\ Len(transactions) = 3
    /\ \E i \in 1..3 :
          /\ FlaggedAsNewMerchant(i)
          /\ \A j \in (1..3) \ {i} : MerchantCount(transactions[j].merchant) = 2

\* C12: detect_and_mark run twice in succession on an unchanged store returns
\* the same list of flags both times and leaves the store as it was after the
\* first run.
C12_DetectAndMarkIdempotent ==
    (ret.op = "anomaly_detect_and_mark" /\ ret.again) =>
        /\ ret.anomalies = ret.first
        /\ transactions = ret.before

\* A second run in succession returned flags, all of them marked by the first
C12_Witness ==
    /\ ret.op = "anomaly_detect_and_mark"
    /\ ret.again
    /\ ret.anomalies # <<>>
    /\ \A k \in 1..Len(ret.anomalies) :
          ret.before[ret.anomalies[k].transaction_id].is_anomaly = 1

\* The transaction is the only one of its category
AloneInCategory(i) ==
    /\ transactions[i].category_id # NULL
    /\ \A j \in 1..Len(transactions) :
          transactions[j].category_id = transactions[i].category_id => j = i

\* The number of stored transactions of the merchant and amount
GroupCount(merchant, amount) ==
    Cardinality({i \in 1..Len(transactions) :
                    transactions[i].merchant = merchant /\ transactions[i].amount = amount})

\* C13: both detectors finish without raising, on an empty store with an empty
\* list; a transaction that is the only one of its category is never flagged as
\* a category outlier, and a (merchant, amount) group with a single transaction
\* is never reported as recurring.
C13_DetectorsTolerateLittleData ==
    /\ ret.op = "anomaly_detect" =>
          /\ ~ret.raised
          /\ transactions = <<>> => ret.anomalies = <<>>
          /\ \A i \in 1..Len(transactions) : AloneInCategory(i) => ~FlaggedAsOutlier(i)
    /\ ret.op = "recurring_detect" =>
          /\ ~ret.raised
          /\ transactions = <<>> => ret.recurring = <<>>
          /\ \A k \in 1..Len(ret.recurring) :
                GroupCount(ret.recurring[k].merchant, ret.recurring[k].amount) >= 2

\* The anomaly detector ran over a store in which a transaction is alone in its
\* category, beside a category of two
C13_Witness ==
    /\ ret.op = "anomaly_detect"
    /\ \E i \in 1..Len(transactions) : AloneInCategory(i)
    /\ \E i \in 1..Len(transactions) :
          transactions[i].category_id # NULL /\ ~AloneInCategory(i)

(***************************************************************************)
(* Claims on the operations that update stored transactions (SpecUpdate).  *)
(***************************************************************************)
UpdatingOperations ==
    {"categorize_and_update", "categorize_transaction", "recurring_detect_and_mark",
     "anomaly_detect_and_mark"}

\* The step neither adds nor deletes a transaction and leaves every
\* transaction's date, amount, merchant and description as they were
IdentityKept ==
    /\ Len(transactions') = Len(transactions)
    /\ \A i \in 1..Len(transactions) :
          /\ transactions'[i].date = transactions[i].date
          /\ transactions'[i].amount = transactions[i].amount
          /\ transactions'[i].merchant = transactions[i].merchant
          /\ transactions'[i].description = transactions[i].description

\* C14: categorize_and_update, categorize_transaction and the detect_and_mark of
\* both detectors never add or delete a transaction and never change a
\* transaction's date, amount, merchant or description.
C14_UpdatesKeepIdentity == [][ret'.op \in UpdatingOperations => IdentityKept]_vars

\* All four operations have changed the store: a transaction was categorized
\* automatically, one by hand, one is marked recurring and one anomalous
C14_Witness ==
    /\ \E i \in 1..Len(transactions) :
          method[i] = "auto" /\ transactions[i].category_id # NULL
    /\ \E i \in 1..Len(transactions) :
          method[i] = "manual" /\ transactions[i].category_id # NULL
    /\ \E i \in 1..Len(transactions) : transactions[i].is_recurring = 1
    /\ \E i \in 1..Len(transactions) : transactions[i].is_anomaly = 1

\* The results categorize gives the transaction alone, against the index as it
\* stood before the run of calls
ResultsAlone(txn_id) ==
    {[method |-> c.result.method, category_id |-> c.result.category_id,
      confidence |-> c.result.confidence] :
        c \in Categorize(ret.index_before, TxnDict(transactions, txn_id), "none")}

\* C15: a new transaction categorized by categorize_and_update after others
\* gets the result (method, category, confidence) it would get if it were
\* categorized alone against the index as it stood before any of the calls.
C15_ResultAsIfAlone ==
    (ret.op = "categorize_and_update" /\ ret.call.raised # "categorize") =>
        [method |-> ret.call.method, category_id |-> ret.call.category_id,
         confidence |-> ret.call.confidence] \in ResultsAlone(ret.call.txn_id)

\* A transaction categorized after another was categorized automatically, while
\* alone it would have been left for review
C15_OrderChangesResult ==
    /\ ret.op = "categorize_and_update"
    /\ ret.later
    /\ ret.call.method = "auto"
    /\ \A r \in ResultsAlone(ret.call.txn_id) : r.method = "needs_review"

(***************************************************************************)
(* Amount normalization: an amount cell is drawn, and _normalize_amount is  *)
(* applied to its value or a file of one row with the cell is parsed.      *)
(***************************************************************************)
InitAmount ==
    /\ transactions = <<>>
    /\ embeddings = <<>>
    /\ categorization_log = <<>>
    /\ next_group_id = 1
    /\ imported = {}
    /\ method = <<>>
    /\ running = <<>>
    /\ ret \in {[op |-> "init", cell |-> cell] : cell \in AmountTexts}

NextAmount ==
    /\ ret.op = "init"
    /\ \/ \E amount_val \in AmountValues(ret.cell) : NormalizeAmountCall(amount_val)
       \/ ParseFile(AmountFile(ret.cell))

SpecAmount == InitAmount /\ [][NextAmount]_vars

\* A numeral: digits with at most one decimal point among them, after an
\* optional sign
Numeral(text) ==
    LET body == IF text # "" /\ Char(text, 1) \in {"-", "+"} THEN Tail(text) ELSE text
    IN /\ \A i \in 1..Len(body) : IsDigit(Char(body, i)) \/ Char(body, i) = "."
       /\ Cardinality({i \in 1..Len(body) : Char(body, i) = "."}) <= 1
       /\ \E i \in 1..Len(body) : IsDigit(Char(body, i))

\* The text between the blanks at its ends, without "$" and ","
Bare(text) == RemoveChars(Strip(text), {"$", ","})

Wrapped(text) == Len(text) >= 2 /\ Char(text, 1) = "(" /\ Char(text, Len(text)) = ")"

Unwrapped(text) == SubSeq(text, 2, Len(text) - 1)

Negated(amount) == [amount EXCEPT !.value = <<-amount.value[1], amount.value[2]>>]

\* C20: amount normalization ignores "$" and ",", reads a value wrapped in
\* parentheses as the negative of the value inside, keeps a minus sign, gives
\* -45.99 for "$-45.99", -125.50 for "(125.50)" and 100.00 for "100.00", gives
\* no amount exactly when what is left is not a numeral, and parse rejects the
\* row of an amount cell that has no amount.
C20_AmountNormalization ==
    /\ (ret.op = "normalize_amount" /\ ret.amount_val.kind = "text") =>
            LET text == ret.amount_val.text
                bare == Bare(text)
            IN /\ ret.amount = NormalizeAmount(Text(bare))
               /\ Wrapped(bare) => ret.amount = NormalizeAmount(Text("-" \o Unwrapped(bare)))
               /\ (Len(bare) >= 2 /\ Char(bare, 1) = "-" /\ Char(bare, 2) \notin {"-", "+"}
                      /\ Numeral(Tail(bare))) =>
                      ret.amount = Negated(NormalizeAmount(Text(Tail(bare))))
               /\ ret.amount.ok <=>
                      Numeral(Strip(IF Wrapped(bare) THEN "-" \o Unwrapped(bare) ELSE bare))
               /\ text = "$-45.99" => ret.amount = SomeAmount(<<-4599, 2>>)
               /\ text = "(125.50)" => ret.amount = SomeAmount(<<-1255, 1>>)
               /\ text = "100.00" => ret.amount = SomeAmount(<<100, 0>>)
    /\ (ret.op = "parse" /\ ret.file.columns = AmountFile("").columns) =>
            IF NormalizeAmount(Text(ret.file.rows[1][3])).ok
            THEN /\ Len(ret.transactions) = 1
                 /\ ret.transactions[1].amount = NormalizeAmount(Text(ret.file.rows[1][3])).value
            ELSE ret.transactions = <<>>

\* The parenthesized statement amount has been normalized to its negative
C20_Witness ==
    /\ ret.op = "normalize_amount"
    /\ ret.amount_val = Text("($1,250.00)")
    /\ ret.amount = SomeAmount(<<-1250, 0>>)

(***************************************************************************)
(* Format detection: a header row and a filename are drawn, and            *)
(* detect_format is applied to them.                                       *)
(***************************************************************************)
InitFormat ==
    /\ transactions = <<>>
    /\ embeddings = <<>>
    /\ categorization_log = <<>>
    /\ next_group_id = 1
    /\ imported = {}
    /\ method = <<>>
    /\ running = <<>>
    /\ ret \in {[op |-> "init", columns |-> columns, filename |-> filename] :
                    columns \in HeaderRows, filename \in Filenames}

NextFormat ==
    /\ ret.op = "init"
    /\ DetectFormatCall(ret.columns, ret.filename)

SpecFormat == InitFormat /\ [][NextFormat]_vars

\* C19: for a header row that is exactly the expected header list of a profile,
\* and no filename, detect_format returns the identifier of that profile.
C19_OwnHeadersDetectProfile ==
    (ret.op = "detect_format" /\ ret.filename = "") =>
        \A p \in 1..Len(BANK_FORMATS) :
            ret.columns = BANK_FORMATS[p].headers => ret.format_name = BANK_FORMATS[p].id

\* The header list of the marcus profile has been detected as navy_federal
C19_MarcusDetectedAsNavyFederal ==
    /\ ret.op = "detect_format"
    /\ ret.filename = ""
    /\ \E p \in 1..Len(BANK_FORMATS) :
            BANK_FORMATS[p].id = "marcus" /\ ret.columns = BANK_FORMATS[p].headers
    /\ ret.format_name = "navy_federal"

(***************************************************************************)
(* Column mapping: a file and a format profile are drawn, and              *)
(* _smart_detect_columns is applied to them.                               *)
(***************************************************************************)
InitColumns ==
    /\ transactions = <<>>
    /\ embeddings = <<>>
    /\ categorization_log = <<>>
    /\ next_group_id = 1
    /\ imported = {}
    /\ method = <<>>
    /\ running = <<>>
    /\ ret \in {[op |-> "init", file |-> file, profile |-> p] :
                    file \in ColumnFiles, p \in 1..Len(BANK_FORMATS)}

NextColumns ==
    /\ ret.op = "init"
    /\ SmartDetectColumnsCall(ret.file, ret.profile)

SpecColumns == InitColumns /\ [][NextColumns]_vars

\* C16: every derived column mapping has either the amount column set or both
\* the debit and the credit column set, and never the amount column together
\* with a debit or a credit column.
C16_AmountXorDebitCredit ==
    ret.op = "smart_detect_columns" =>
        /\ ret.mapping.amount_column # ""
              \/ (ret.mapping.debit_column # "" /\ ret.mapping.credit_column # "")
        /\ ret.mapping.amount_column # "" =>
              (ret.mapping.debit_column = "" /\ ret.mapping.credit_column = "")

\* The mapping derived for a Capital One statement under the profile detected
\* for it names the debit column as the amount column too
C16_DebitColumnIsAmountColumn ==
    /\ ret.op = "smart_detect_columns"
    /\ ret.format_name = "capital_one"
    /\ ret.detected = "capital_one"
    /\ ret.mapping.amount_column = "Debit"
    /\ ret.mapping.debit_column = "Debit"
    /\ ret.mapping.credit_column = "Credit"

(***************************************************************************)
(* Parsing and import: a file is drawn; it is parsed, and imported into a  *)
(* fresh database once and again.                                          *)
(***************************************************************************)
InitParse ==
    /\ transactions = <<>>
    /\ embeddings = <<>>
    /\ categorization_log = <<>>
    /\ next_group_id = 1
    /\ imported = {}
    /\ method = <<>>
    /\ running = <<>>
    /\ ret \in {[op |-> "init", file |-> file] : file \in ParseFiles}

NextParse ==
    \/ ParseFile(ret.file)
    \/ ImportPath(ret.file)

SpecParse == InitParse /\ [][NextParse]_vars

\* a - b of two decimals
DecimalSub(a, b) ==
    LET k == IF a[2] > b[2] THEN a[2] ELSE b[2]
    IN Decimal(a[1] * Pow10(k - a[2]) - b[1] * Pow10(k - b[2]), k)

\* The value of a debit or credit cell, a missing side being 0
SideOr0(cell) == IF cell = "" THEN <<0, 0>> ELSE NormalizeAmount(Text(cell)).value

HasColumn(file, names) == FirstNamed(file.columns, names, "") # ""

ColumnAt(file, name) == CHOOSE c \in 1..Len(file.columns) : file.columns[c] = name

\* The transactions of a file of debit and credit columns: credit - debit of
\* each row in which it is not 0
SplitTransactions(file) ==
    LET debit == ColumnAt(file, FirstNamed(file.columns, DEBIT_COLUMNS, ""))
        credit == ColumnAt(file, FirstNamed(file.columns, CREDIT_COLUMNS, ""))
        Amount(row) == DecimalSub(SideOr0(row[credit]), SideOr0(row[debit]))
        active == SelectSeq(file.rows, LAMBDA row : Amount(row) # <<0, 0>>)
    IN [i \in 1..Len(active) |-> [date |-> active[i][1], amount |-> Amount(active[i])]]

\* C17: a file with a debit and a credit column and no single amount column is
\* parsed to one transaction for each row with a non-zero debit or credit, of
\* amount credit - debit with a missing side taken as 0; rows in which both are
\* 0 are skipped.
C17_SplitAmountIsCreditMinusDebit ==
    (/\ ret.op = "parse"
     /\ HasColumn(ret.file, DEBIT_COLUMNS)
     /\ HasColumn(ret.file, CREDIT_COLUMNS)
     /\ ~HasColumn(ret.file, AMOUNT_COLUMNS)) =>
        [i \in 1..Len(ret.transactions) |->
            [date |-> ret.transactions[i].date, amount |-> ret.transactions[i].amount]]
          = SplitTransactions(ret.file)

\* A file of a debit of 4.50 and a credit of 1200.00 has been parsed to no
\* transaction
C17_SplitFileYieldsNothing ==
    /\ ret.op = "parse"
    /\ ret.file.columns = <<"Date", "Description", "Debit", "Credit">>
    /\ ret.file.rows = <<<<"2024-01-15", "COFFEE SHOP", "4.50", "">>,
                         <<"2024-01-16", "PAYROLL", "", "1200.00">>>>
    /\ ret.transactions = <<>>

\* A row resolves when its date cell holds a date and its amount cell an amount
Resolves(file, row) ==
    LET mapping == GetColumnMapping(file)
    IN /\ mapping.date # "" /\ mapping.amount # ""
       /\ NormalizeDate(IF row[ColumnAt(file, mapping.date)] = "" THEN NaN
                        ELSE Text(row[ColumnAt(file, mapping.date)])) # NoText
       /\ NormalizeAmount(IF row[ColumnAt(file, mapping.amount)] = "" THEN NaN
                          ELSE Text(row[ColumnAt(file, mapping.amount)])).ok

\* The file without the rows that do not resolve
ResolvedOnly(file) ==
    [file EXCEPT !.rows = SelectSeq(file.rows, LAMBDA row : Resolves(file, row))]

\* The transaction of a row of a file of its own
Alone(file, row) == Parse([file EXCEPT !.rows = <<row>>])

\* C18: parse returns the transactions of exactly the rows whose date and
\* amount resolve, in file order, whatever other rows the file holds, and the
\* result of an import that dropped rows differs from the result of importing
\* the file without them.
C18_BadRowsDroppedAndReported ==
    /\ ret.op = "parse" =>
          LET kept == ResolvedOnly(ret.file).rows
          IN /\ Len(ret.transactions) = Len(kept)
             /\ \A i \in 1..Len(kept) : <<ret.transactions[i]>> = Alone(ret.file, kept[i])
    /\ (ret.op = "import_path" /\ ResolvedOnly(ret.file) # ret.file) =>
          ret.result # ImportResult(ret.before, Parse(ResolvedOnly(ret.file)))

\* A file of an unreadable row and a good row has been imported, and the result
\* counts one parsed and one added transaction, as for the good row alone
C18_DroppedRowUnreported ==
    /\ ret.op = "import_path"
    /\ ret.before = <<>>
    /\ ret.file.rows = <<<<"pending", "COFFEE SHOP", "-4.50">>,
                         <<"01/16/2024", "GROCERY STORE", "(52.10)">>>>
    /\ ret.result = [total_parsed |-> 1, added |-> 1, duplicates |-> 0, categorized |-> 0]
    /\ Len(transactions) = 1
    /\ transactions[1].date = "2024-01-16"
    /\ transactions[1].amount = <<-521, 1>>

(***************************************************************************)
(* Further properties of the anomaly detector (SpecAnomaly).               *)
(***************************************************************************)
\* The positions of the transactions of a category
InCategory(category_id) ==
    {i \in 1..Len(transactions) : transactions[i].category_id = category_id}

\* All transactions of the category have the same absolute amount
SameMagnitude(category_id) ==
    \A i, j \in InCategory(category_id) :
        Magnitude(transactions[i].amount) = Magnitude(transactions[j].amount)

\* C27: if all transactions of a category have the same absolute amount, no
\* transaction of that category is flagged as a category outlier, however many
\* transactions the category holds.
C27_EqualAmountsNeverOutliers ==
    ret.op = "anomaly_detect" =>
        \A c \in CategoryIds :
            SameMagnitude(c) => \A i \in InCategory(c) : ~FlaggedAsOutlier(i)

\* Five transactions of one category, of amounts 50 and -50, were checked
C27_Witness ==
    /\ ret.op = "anomaly_detect"
    /\ Cardinality(InCategory(2)) = MaxCategoryTxns
    /\ SameMagnitude(2)
    /\ \E i, j \in InCategory(2) : transactions[i].amount = 50 /\ transactions[j].amount = -50
    /\ \A i \in InCategory(2) : ~FlaggedAsOutlier(i)

\* The transaction is in the result as exceeding the range of its category
FlaggedAsExceeding(txn_id) ==
    \E k \in 1..Len(ret.anomalies) :
        /\ ret.anomalies[k].transaction_id = txn_id
        /\ \E j \in 1..Len(ret.anomalies[k].reason) :
              ret.anomalies[k].reason[j] = "exceeds category normal range"

\* C29: in a category of four or fewer transactions the value at position
\* floor(3n/4) (from 0) of the sorted absolute amounts is the largest of them,
\* and no transaction of the category is flagged as exceeding the normal range;
\* a transaction flagged so is in a category of five or more.
C29_NoUpperFenceBelowFive ==
    ret.op = "anomaly_detect" =>
        \A c \in CategoryIds :
            LET sorted == SortedMagnitudes(c)
                n == Len(sorted)
            IN /\ (n >= 1 /\ n <= 4) =>
                    /\ sorted[((3 * n) \div 4) + 1] = sorted[n]
                    /\ \A i \in InCategory(c) : ~FlaggedAsExceeding(i)
               /\ (\E i \in InCategory(c) : FlaggedAsExceeding(i)) => n >= 5

\* Four transactions of one category, three of 48 and one of 500, were checked
\* and none exceeds the range; a fifth of 48 would have the 500 flagged
C29_Witness ==
    /\ ret.op = "anomaly_detect"
    /\ SortedMagnitudes(2) = <<48, 48, 48, 500>>
    /\ \A i \in InCategory(2) : ~FlaggedAsExceeding(i)

(***************************************************************************)
(* Further properties of the categorizer (SpecCategorize).                 *)
(***************************************************************************)
\* Every retrieved neighbour carries the same label
Unanimous(labels) == \A i, j \in 1..Len(labels) : labels[i] = labels[j]

\* C28: with K = 5, threshold 0.85 and at least 3 matches, categorize returns
\* "auto" only when every retrieved neighbour carries the same label; the
\* confidence of an auto result is exactly 1.0, and a single dissenting
\* neighbour forces needs_review.
C28_AutoOnlyWhenUnanimous ==
    Returned =>
        /\ Len(ret.labels) <= TOP_K_SIMILAR
        /\ ret.method = "auto" =>
              /\ Unanimous(ret.labels)
              /\ ret.confidence[1] = ret.confidence[2]
              /\ ret.confidence[2] > 0
        /\ ~Unanimous(ret.labels) => IsNeedsReview

\* Four of five neighbours agreed (a share of 0.8) and the result is needs_review
C28_Witness ==
    /\ Returned
    /\ Len(ret.labels) = TOP_K_SIMILAR
    /\ \E w \in Range(ret.labels) : Votes(ret.labels, w) = TOP_K_SIMILAR - 1 /\ NamesCategory(w)
    /\ IsNeedsReview

(***************************************************************************)
(* The queries among the operations that update stored transactions.       *)
(***************************************************************************)
NextQuery ==
    \/ \E id \in 1..Len(transactions) :
            method[id] = "none" /\ CategorizeAndUpdateCall(id, "none")
    \/ (\A i \in 1..Len(transactions) : transactions[i].is_recurring = 0)
            /\ RecurringDetectAndMark
    \/ (\A i \in 1..Len(transactions) : transactions[i].is_anomaly = 0)
            /\ AnomalyDetectAndMark
    \/ \E id \in 1..Len(transactions), fail \in {"none", "embed", "search"} :
            CategorizeQuery(TxnDict(transactions, id), fail)
    \/ RecurringDetect
    \/ AnomalyDetect

SpecQuery == InitUpdate /\ [][NextQuery]_vars

QueryOperations == {"categorize", "recurring_detect", "anomaly_detect"}

\* C30: categorize, RecurringDetector.detect and AnomalyDetector.detect leave
\* every transaction's fields, the categorization log and the similarity index
\* unchanged, and RecurringDetector.detect does not advance the group-id counter.
C30_QueriesChangeNothing ==
    [][ret'.op \in QueryOperations =>
          /\ UNCHANGED <<transactions, categorization_log, embeddings>>
          /\ ret'.op = "recurring_detect" => UNCHANGED next_group_id]_vars

\* detect reported a group after detect_and_mark had given it group id 1 and
\* categorizations had written the log and the index
C30_Witness ==
    /\ ret.op = "recurring_detect"
    /\ ret.recurring # <<>>
    /\ next_group_id = 2
    /\ \E i \in 1..Len(transactions) : transactions[i].recurring_group_id = 1
    /\ categorization_log # <<>>
    /\ Len(embeddings) > MaxUpdateIndex

(***************************************************************************)
(* Further properties of detect_format (SpecFormat).                       *)
(***************************************************************************)
\* text occurs in whole as a part of within
OccursIn(text, within) ==
    \E a \in 1..(Len(within) + 1) :
        a + Len(text) - 1 <= Len(within) /\ SubSeq(within, a, a + Len(text) - 1) = text

\* The number of the names that occur, letter case ignored, in one of the
\* columns given in lower case
NumberPresent(names, columns_lower) ==
    LET Occurs(name_lower) ==
            \E c \in 1..Len(columns_lower) : OccursIn(name_lower, columns_lower[c])
    IN Cardinality({i \in 1..Len(names) : Occurs(StrLower(names[i]))})

\* 3 x (signature columns present) + 1 x (expected headers present) + 5 if a
\* filename is given and contains the institution name; columns and filename
\* are given in lower case
ProfileScore(p, columns_lower, filename_lower) ==
    3 * NumberPresent(BANK_FORMATS[p].signature_columns, columns_lower)
    + NumberPresent(BANK_FORMATS[p].headers, columns_lower)
    + (IF filename_lower # "" /\ OccursIn(StrLower(BANK_FORMATS[p].institution), filename_lower)
       THEN 5 ELSE 0)

\* The profiles other than the generic one
KnownProfiles == {p \in 1..Len(BANK_FORMATS) : BANK_FORMATS[p].id # "generic"}

\* The score of every profile but the generic one
ProfileScores(columns, filename) ==
    LET Of(columns_lower, filename_lower) ==
            [p \in KnownProfiles |-> ProfileScore(p, columns_lower, filename_lower)]
    IN Of([c \in 1..Len(columns) |-> StrLower(columns[c])], StrLower(filename))

\* The first, in definition order, of the profiles with the highest score
TopProfile(scores) ==
    CHOOSE p \in KnownProfiles :
        /\ \A q \in KnownProfiles : scores[q] <= scores[p]
        /\ \A q \in KnownProfiles : q < p => scores[q] < scores[p]

\* C26: detect_format returns the profile with the highest score, the first in
\* definition order among those with the top score, and the generic profile when
\* no profile scores above 0.
C26_HighestScoreFirstWins ==
    ret.op = "detect_format" =>
        LET Chosen(scores) ==
                IF \A p \in KnownProfiles : scores[p] = 0
                THEN ret.format_name = "generic"
                ELSE ret.format_name = BANK_FORMATS[TopProfile(scores)].id
        IN Chosen(ProfileScores(ret.columns, ret.filename))

\* Two profiles had the top score, one of them for the institution's name in the
\* filename, and the earlier of the two was returned
C26_Witness ==
    /\ ret.op = "detect_format"
    /\ ret.filename # ""
    /\ LET Tied(scores) ==
               \E p, q \in KnownProfiles :
                  /\ p < q
                  /\ p = TopProfile(scores)
                  /\ scores[q] = scores[p]
                  /\ OccursIn(StrLower(BANK_FORMATS[q].institution), StrLower(ret.filename))
                  /\ ret.format_name = BANK_FORMATS[p].id
       IN Tied(ProfileScores(ret.columns, ret.filename))

(***************************************************************************)
(* The collaborator calls of a categorization (SpecQuery).                 *)
(***************************************************************************)
\* The number of calls made to a collaborator
CallsTo(calls, collaborator) ==
    Cardinality({i \in 1..Len(calls) : calls[i] = collaborator})

\* C25: categorizing one transaction makes at most one call to the embedding
\* collaborator and at most one similarity search, for categorize and for
\* categorize_and_update alike.
C25_AtMostOneEmbedAndOneSearch ==
    ret.op \in {"categorize", "categorize_and_update"} =>
        /\ CallsTo(ret.collaborator_calls, "embed") <= 1
        /\ CallsTo(ret.collaborator_calls, "search") <= 1

\* categorize_and_update returned after embedding the transaction twice, before
\* and after its one search
C25_CategorizeAndUpdateEmbedsTwice ==
    /\ ret.op = "categorize_and_update"
    /\ ret.call.raised = "no"
    /\ ret.collaborator_calls = <<"embed", "search", "embed">>

(***************************************************************************)
(* The similarity index under the operations that write it: new            *)
(* transactions are categorized, corrected by hand once each, and entries  *)
(* are relabelled by update_category, which may be interrupted.            *)
(***************************************************************************)
NextIndex ==
    \/ \E id \in 1..Len(transactions) :
            running = <<>> /\ method[id] = "none" /\ CategorizeAndUpdateCall(id, "none")
    \/ \E id \in 1..Len(transactions), name \in ManualNames :
            /\ running = <<>>
            /\ method[id] \in {"auto", "needs_review"}
            /\ CategorizeTransaction(id, name)
    \/ \E id \in 1..Len(transactions), name \in ManualNames : UpdateCategoryGet(id, name)
    \/ UpdateCategoryDelete
    \/ UpdateCategoryAdd
    \/ UpdateCategoryInterrupted

\* Two new transactions over an index of at most MaxRelabelIndex earlier entries
InitIndex ==
    /\ transactions = SelectSeq(UpdateStore, LAMBDA t : t.merchant = "NETFLIX")
    /\ embeddings \in {index \in UpdateIndexes : Len(index) <= MaxRelabelIndex}
    /\ categorization_log = <<>>
    /\ next_group_id = 1
    /\ imported = {}
    /\ method = [i \in 1..Len(transactions) |-> "none"]
    /\ running = <<>>
    /\ ret = [op |-> "init"]

SpecIndex == InitIndex /\ [][NextIndex]_vars

\* C22: after any sequence of categorize_and_update, categorize_transaction and
\* update_category calls the similarity index holds at most one entry per
\* transaction id.
C22_OneEntryPerTransaction ==
    running = <<>> =>
        \A p, q \in 1..Len(embeddings) :
            embeddings[p].transaction_id = embeddings[q].transaction_id => p = q

\* A transaction categorized by categorize_and_update and then by hand has two
\* entries, the older one under its previous label
C22_PreviousLabelStillIndexed ==
    /\ running = <<>>
    /\ ret.op = "categorize_transaction"
    /\ \E p, q \in 1..Len(embeddings) :
          /\ p < q
          /\ embeddings[p].transaction_id = embeddings[q].transaction_id
          /\ embeddings[p].transaction_id \in 1..Len(transactions)
          /\ embeddings[p].category # embeddings[q].category
          /\ embeddings[q].category =
                CategoryNames[transactions[embeddings[q].transaction_id].category_id]

\* The entries of the other transaction ids, in order
OtherEntries(table, transaction_id) ==
    LET Other(e) == e.transaction_id # transaction_id
    IN SelectSeq(table, Other)

\* What update_category(id, c) leaves of the index it was called on, but for the
\* number of entries: without an entry for id, nothing changes; otherwise
\* exactly one entry for id, labelled c, with the vector, merchant and amount of
\* an entry id had, the entries of other ids as they were; interrupted between
\* the delete and the re-insert, no entry for id.
UpdateCategoryOutcome ==
    LET id == ret.transaction_id
        held == EntriesOf(ret.before, id)
        kept == EntriesOf(embeddings, id)
    IN /\ ret.outcome = "absent" <=> held = {}
       /\ ret.outcome \in {"absent", "interrupted before delete"} => embeddings = ret.before
       /\ ret.outcome = "interrupted before add" =>
             /\ kept = {}
             /\ embeddings = OtherEntries(ret.before, id)
       /\ ret.outcome = "done" =>
             /\ Cardinality(kept) = 1
             /\ OtherEntries(embeddings, id) = OtherEntries(ret.before, id)
             /\ \A p \in kept :
                   /\ embeddings[p].category = ret.new_category
                   /\ \E q \in held :
                         /\ embeddings[p].vector = ret.before[q].vector
                         /\ embeddings[p].merchant = ret.before[q].merchant
                         /\ embeddings[p].amount = ret.before[q].amount

NextFlags ==
    \/ \E row \in FlagRows :
            StoreAddTransaction(row, NULL) /\ Len(transactions') <= MaxMarked
    \/ RecurringDetectAndMark /\ next_group_id' <= MaxGroupId + 1
    \/ AnomalyDetectAndMark

SpecFlags == Init /\ [][NextFlags]_vars

\* The members of the groups the last detect_and_mark of the recurring detector
\* returned
LatestMembers ==
    UNION {Range(ret.recurring[g].transaction_ids) : g \in 1..Len(ret.recurring)}

\* The transactions the last detect_and_mark of the anomaly detector returned
LatestAnomalies ==
    {ret.anomalies[k].transaction_id : k \in 1..Len(ret.anomalies)}

\* C21: after any sequence of inserts and detect_and_mark runs, the transactions
\* marked is_recurring (is_anomaly) are exactly the members of the groups (the
\* flagged transactions) the most recent run returned, and a marked transaction
\* carries a group id of that run.
C21_FlagsAreThoseOfLatestRun ==
    /\ ret.op = "recurring_detect_and_mark" =>
          \A i \in 1..Len(transactions) :
              /\ transactions[i].is_recurring = 1 <=> i \in LatestMembers
              /\ i \notin LatestMembers => transactions[i].recurring_group_id = NULL
              /\ i \in LatestMembers => transactions[i].recurring_group_id \in Range(ret.group_ids)
    /\ ret.op = "anomaly_detect_and_mark" =>
          \A i \in 1..Len(transactions) :
              transactions[i].is_anomaly = 1 <=> i \in LatestAnomalies

\* The latest run of the recurring detector returned no group, and a transaction
\* is still marked recurring under the group id an earlier run gave it
C21_StaleRecurringMark ==
    /\ ret.op = "recurring_detect_and_mark"
    /\ ret.recurring = <<>>
    /\ \E i \in 1..Len(transactions) :
          /\ transactions[i].is_recurring = 1
          /\ transactions[i].recurring_group_id # NULL
          /\ transactions[i].recurring_group_id < ret.first_id

(***************************************************************************)
(* Two threads call detect_and_mark on the detector of the service, each   *)
(* once, over a store of two recurring groups.                             *)
(***************************************************************************)
InitRace ==
    /\ transactions = RaceStore
    /\ embeddings = <<>>
    /\ categorization_log = <<>>
    /\ next_group_id = 1
    /\ imported = {}
    /\ method = [i \in 1..Len(RaceStore) |-> "none"]
    /\ running = [t \in Threads |-> NotStarted]
    /\ ret = [op |-> "init"]

NextRace ==
    \/ \E t \in Threads : DetectAndMarkDetect(t)
    \/ \E t \in Threads : DetectAndMarkReadGroupId(t)
    \/ \E t \in Threads : DetectAndMarkLoad(t)
    \/ \E t \in Threads : DetectAndMarkStore(t)
    \/ \E t \in Threads : DetectAndMarkMark(t)

SpecRace == InitRace /\ [][NextRace]_vars

\* Both runs have returned
BothReturned == \A t \in Threads : running[t].pc = "done"

\* The runs overlapped in time: one was called while the other was in progress
Overlapped == \E t \in Threads : running[t].overlapped

SameGroup(i, j) ==
    /\ transactions[i].merchant = transactions[j].merchant
    /\ transactions[i].amount = transactions[j].amount

\* Two different (merchant, amount) groups have received the same group id
GroupsShareId ==
    \E i, j \in 1..Len(transactions) :
        /\ ~SameGroup(i, j)
        /\ transactions[i].recurring_group_id # NULL
        /\ transactions[i].recurring_group_id = transactions[j].recurring_group_id

\* The members of one group have different group ids
GroupIsSplit ==
    \E i, j \in 1..Len(transactions) :
        /\ SameGroup(i, j)
        /\ transactions[i].recurring_group_id # transactions[j].recurring_group_id

\* C24: two detect_and_mark runs leave two groups with one group id, or one
\* group with two group ids, only when they overlap in time; such an
\* interleaving of overlapping runs exists (C24_Witness).
C24_UnsafeOnlyWhenOverlapping ==
    (BothReturned /\ (GroupsShareId \/ GroupIsSplit)) => Overlapped

\* Two overlapping runs have returned and two different groups carry one id
C24_Witness ==
    /\ BothReturned
    /\ Overlapped
    /\ GroupsShareId

\* Two overlapping runs have returned and one group carries two ids
C24_SplitGroupReached ==
    /\ BothReturned
    /\ Overlapped
    /\ GroupIsSplit

====
